---- MODULE Spec2Model ----
(***************************************************************************)
(* Verification model of the skyweaver weather-art pipeline:               *)
(*   src/src/map.py      normalize_series, smooth_series, map_features     *)
(*   src/weather_data.py normalize_values, smooth_time_series,             *)
(*                       map_weather_to_visualization                      *)
(*   src/src/render.py   make_animation, _gen_noise_field_vectorized       *)
(*   src/src/fetch.py    fetch_weather                                     *)
(*   src/src/main.py     main                                              *)
(*   src/src/palettes.py get_palette, apply_palette                        *)
(*                                                                         *)
(* Numbers.  The code computes in float32/float64.  The model computes in  *)
(* exact rationals <<n, d>> (d > 0, lowest terms); d = 0 encodes the IEEE  *)
(* specials: <<0,0>> is NaN, <<1,0>> is +inf, <<-1,0>> is -inf.  Rounding  *)
(* of the floating point formats is not modelled.                          *)
(***************************************************************************)
EXTENDS Integers, Sequences, FiniteSets, TLC

VARIABLES
    \* ---- map.py / weather_data.py
    df,            \* input table of map_features: [index, cols]
    weather_df,    \* input table of map_weather_to_visualization
    map_pc,        \* position inside map_features
    features,      \* the dict map_features builds (channel -> series)
    times,         \* the index map_features returns
    warnings,      \* channels for which logger.warning was called
    viz_df,        \* result of map_weather_to_visualization
    \* ---- normalize_series called on its own
    norm_in,       \* [x, lo, hi, clip]: the arguments
    norm_out,      \* [called, raised, val, divided]: the outcome
    \* ---- render.py, make_animation(features, times, out_path, ...)
    inbetweens,    \* argument inbetweens
    preview,       \* argument preview
    out_path,      \* argument out_path (None or a path)
    noise_steps,   \* argument noise_steps
    render_pc,     \* position inside make_animation
    n_frames,      \* the local n_frames, as logged
    loop_i,        \* loop variable i (0-based, as in the code)
    loop_k,        \* loop variable k
    frames,        \* the list frames
    sink,          \* what preview / the encoders were handed
    \* ---- fetch.py, fetch_weather
    cache,         \* the parquet cache file: [exists, age (minutes), df]
    fetch_pc,      \* position inside fetch_weather
    attempt,       \* loop variable attempt
    net_log,       \* outcome of each requests.get so far, in order
    sleeps,        \* arguments of the time.sleep calls so far, in order
    data,          \* the parsed JSON body of the successful response
    fetch_ret,     \* [src, df]: what fetch_weather returned and from where
    cache_writes,  \* number of df.to_parquet(cache_path) calls
    \* ---- main.py, main
    args,          \* the parsed command line: [save, sigma]
    main_pc,       \* position inside main
    main_log,      \* what main logged / printed, in order
    main_err,      \* the exception main's handler caught ("" for none)
    render_calls,  \* the make_animation calls main made: [out_path, preview]
    \* ---- palettes.py
    pal_in,        \* [name, n, accent]: arguments of get_palette
    pal_out,       \* [called, warned, lut]: its outcome
    img_in,        \* [ndim, px]: the image handed to apply_palette
    img_out,       \* [called, raised, idx]: the error raised, the LUT indices used
    \* ---- render.py, _gen_noise_field_vectorized
    has_noise,     \* _HAS_NOISE: the noise package was imported
    rng,           \* state of numpy's global generator: [seed, pos]
    noise_calls,   \* the generate calls so far, in order: [args, from, arr],
                   \* from being the generator state the call started in
    \* ---- normalize_values / smooth_time_series / smooth_series called on
    \*      their own
    series_in,     \* [fn, series, lo, hi, sigma]: the function and its arguments
    series_out     \* [called, val]: the series returned

mapVars  == <<df, weather_df, map_pc, features, times, warnings, viz_df>>
normVars == <<norm_in, norm_out>>
renderVars == <<inbetweens, preview, out_path, noise_steps, render_pc, n_frames,
                loop_i, loop_k, frames, sink>>
fetchVars == <<cache, fetch_pc, attempt, net_log, sleeps, data, fetch_ret,
               cache_writes>>
mainVars == <<args, main_pc, main_log, main_err, render_calls>>
palVars  == <<pal_in, pal_out, img_in, img_out>>
noiseVars == <<has_noise, rng, noise_calls>>
seriesVars == <<series_in, series_out>>
restVars == <<fetchVars, mainVars, palVars, noiseVars, seriesVars>>
vars     == <<mapVars, normVars, renderVars, restVars>>

----------------------------------------------------------------------------
(* Bounds of the model *)

\* longest input table (number of hourly samples)
MaxLen == 3

\* largest value of the argument inbetweens
MaxInbetweens == 2

\* longest image (in pixels) handed to apply_palette
MaxPixels == 1

\* largest value of the argument steps of _gen_noise_field_vectorized
MaxSteps == 2

\* most calls of _gen_noise_field_vectorized in one run
MaxCalls == 2

----------------------------------------------------------------------------
(* Rational arithmetic with the IEEE specials *)

Abs(x) == IF x < 0 THEN -x ELSE x

Sign(x) == IF x < 0 THEN -1 ELSE IF x > 0 THEN 1 ELSE 0

RECURSIVE GCD(_, _)
GCD(a, b) == IF b = 0 THEN a ELSE GCD(b, a % b)

\* the value n/d: lowest terms, positive denominator; d = 0 gives a special
Rat(n, d) ==
    IF d = 0 THEN <<Sign(n), 0>>
    ELSE LET g == GCD(Abs(n), Abs(d))
             s == IF d < 0 THEN -1 ELSE 1
         IN  <<(s * n) \div g, (s * d) \div g>>

R(x) == <<x, 1>>

NaN == <<0, 0>>

\* Python's None for an omitted lo / hi argument
None == <<0, -1>>

IsNaN(a) == a = NaN

RNeg(a) == <<-a[1], a[2]>>

RAdd(a, b) ==
    IF IsNaN(a) \/ IsNaN(b) THEN NaN
    ELSE IF a[2] = 0 /\ b[2] = 0 THEN (IF a[1] = b[1] THEN a ELSE NaN)
    ELSE IF a[2] = 0 THEN a
    ELSE IF b[2] = 0 THEN b
    ELSE Rat(a[1] * b[2] + b[1] * a[2], a[2] * b[2])

RSub(a, b) == RAdd(a, RNeg(b))

RMul(a, b) == Rat(a[1] * b[1], a[2] * b[2])

\* IEEE division: x/0 is +-inf, 0/0 is NaN, no exception
RDiv(a, b) ==
    IF IsNaN(a) \/ IsNaN(b) THEN NaN
    ELSE IF b[2] = 0 THEN (IF a[2] = 0 THEN NaN ELSE R(0))
    ELSE IF b[1] = 0 THEN <<Sign(a[1]), 0>>
    ELSE IF a[2] = 0 THEN <<a[1] * Sign(b[1]), 0>>
    ELSE Rat(a[1] * b[2], a[2] * b[1])

\* IEEE comparisons: every comparison with NaN is false
RLt(a, b) ==
    IF IsNaN(a) \/ IsNaN(b) THEN FALSE
    ELSE IF a[2] = 0 /\ b[2] = 0 THEN a[1] < b[1]
    ELSE a[1] * b[2] < b[1] * a[2]

RLe(a, b) == ~IsNaN(a) /\ ~IsNaN(b) /\ ~RLt(b, a)

RGt(a, b) == RLt(b, a)

\* lo <= a <= hi for numbers
RIn(a, lo, hi) == RLe(lo, a) /\ RLe(a, hi)

\* the sum of a sequence, by halves
RECURSIVE RSum(_)
RSum(s) ==
    IF s = <<>> THEN R(0)
    ELSE IF Len(s) = 1 THEN s[1]
    ELSE LET h == Len(s) \div 2
         IN  RAdd(RSum(SubSeq(s, 1, h)), RSum(SubSeq(s, h + 1, Len(s))))

SeqRange(s) == {s[p] : p \in DOMAIN s}

----------------------------------------------------------------------------
(* src/src/map.py *)

\* np.nanmin / np.nanmax of a non-empty array: NaN entries are skipped, an
\* all-NaN array gives NaN (the empty array raises, see normalize_series)
NanMin(x) ==
    LET v == {a \in SeqRange(x) : ~IsNaN(a)}
    IN  IF v = {} THEN NaN ELSE CHOOSE m \in v : \A a \in v : RLe(m, a)

NanMax(x) ==
    LET v == {a \in SeqRange(x) : ~IsNaN(a)}
    IN  IF v = {} THEN NaN ELSE CHOOSE m \in v : \A a \in v : RLe(a, m)

\* mutant of Clip01: the clip is left out
NoClip(a) == a

\* np.clip(a, 0, 1) on one element: NaN stays NaN
Clip01(a) ==
    IF IsNaN(a) THEN NaN
    ELSE IF RLt(a, R(0)) THEN R(0)
    ELSE IF RGt(a, R(1)) THEN R(1)
    ELSE a

\* mutant of RangeOk: `hi >= lo`, which divides by zero on a degenerate range
RangeOkGe(lo, hi) == RLe(lo, hi)

\* the test `hi > lo` that guards the division
RangeOk(lo, hi) == RGt(hi, lo)

\* normalize_series(x, lo, hi, clip).  raised: np.nanmin of an empty array
\* raises ValueError.  divided: the branch (x - lo) / (hi - lo) was taken.
normalize_series(x, lo, hi, clip) ==
    IF x = <<>> /\ (lo = None \/ hi = None)
    THEN [raised |-> TRUE, val |-> <<>>, divided |-> FALSE]
    ELSE LET lo1  == IF lo = None THEN NanMin(x) ELSE lo
             hi1  == IF hi = None THEN NanMax(x) ELSE hi
             ok   == RangeOk(lo1, hi1)
             norm == IF ok
                     THEN [p \in DOMAIN x |->
                              RDiv(RSub(x[p], lo1), RSub(hi1, lo1))]
                     ELSE [p \in DOMAIN x |-> R(0)]
         IN  [raised  |-> FALSE,
              val     |-> IF clip THEN [p \in DOMAIN x |-> Clip01(norm[p])]
                                  ELSE norm,
              divided |-> ok]

\* scipy's _gaussian_kernel1d(sigma, 0, int(4.0 * sigma + 0.5)): the weights
\* exp(-x^2 / (2 sigma^2)) for x = -radius .. radius, as integers in
\* proportion (3000 * exp(..), rounded); the filter divides by their sum
gaussian_kernel1d(sigma) ==
    CASE sigma = 1 -> <<1, 33, 406, 1820, 3000, 1820, 406, 33, 1>>
      [] sigma = 6 -> <<0, 1, 1, 2, 4, 7, 11, 18, 29, 44, 66, 96, 135, 186, 249,
                        325, 411, 506, 607, 707, 801, 882, 946, 986, 1000, 986,
                        946, 882, 801, 707, 607, 506, 411, 325, 249, 186, 135,
                        96, 66, 44, 29, 18, 11, 7, 4, 2, 1, 1, 0>>

\* scipy.ndimage boundary extension of a 0-based position p for length n:
\* "reflect" is (d c b a | a b c d | d c b a), "nearest" is (a a | a b c d | d d)
ExtendIndex(p, n, mode) ==
    IF mode = "reflect"
    THEN LET m == p % (2 * n) IN IF m < n THEN m ELSE 2 * n - 1 - m
    ELSE IF p < 0 THEN 0 ELSE IF p > n - 1 THEN n - 1 ELSE p

\* mutant of gaussian_filter1d: a "valid" convolution, which keeps only the
\* positions whose whole window lies inside x
gaussian_filter1d_valid(x, sigma, mode) ==
    LET w   == gaussian_kernel1d(sigma)
        r   == (Len(w) - 1) \div 2
        n   == IF Len(x) > 2 * r THEN Len(x) - 2 * r ELSE 0
        tot == RSum([j \in DOMAIN w |-> R(w[j])])
    IN  [p \in 1..n |->
            RDiv(RSum([j \in DOMAIN w |-> RMul(R(w[j]), x[p + j - 1])]), tot)]

\* scipy.ndimage.gaussian_filter1d(x, sigma, mode=mode): same length as x
gaussian_filter1d(x, sigma, mode) ==
    LET w   == gaussian_kernel1d(sigma)
        r   == (Len(w) - 1) \div 2
        n   == Len(x)
        tot == RSum([j \in DOMAIN w |-> R(w[j])])
    IN  [p \in 1..n |->
            RDiv(RSum([j \in DOMAIN w |->
                         RMul(R(w[j]),
                              x[1 + ExtendIndex((p - 1) + (j - 1) - r, n, mode)])]),
                 tot)]

\* np.nanmean(x) for an array with at least one non-NaN entry
nanmean(x) ==
    LET idx == {p \in DOMAIN x : ~IsNaN(x[p])}
        num == [p \in DOMAIN x |-> IF IsNaN(x[p]) THEN R(0) ELSE x[p]]
    IN  RDiv(RSum(num), R(Cardinality(idx)))

\* the boundary mode map.py's smoothing runs with: gaussian_filter1d is called
\* without a mode argument, which is scipy's default
SmoothMode == "reflect"

\* smooth_series(x, sigma=1.0)
smooth_series(x, sigma) ==
    IF \A p \in DOMAIN x : IsNaN(x[p])
    THEN [p \in DOMAIN x |-> R(0)]
    ELSE LET m  == nanmean(x)
             x1 == [p \in DOMAIN x |-> IF IsNaN(x[p]) THEN m ELSE x[p]]
         IN  gaussian_filter1d(x1, sigma, SmoothMode)

\* mutant of def_col: np.zeros(n), the value v dropped
def_col_zeros(n, v) == [p \in 1..n |-> R(0)]

\* def_col = lambda v: np.full(n, v)
def_col(n, v) == [p \in 1..n |-> v]

\* mutant of Affine: the scale factor forgotten
AffineNoScale(base, scale, s) == [p \in DOMAIN s |-> RAdd(base, s[p])]

\* base + scale * series, elementwise
Affine(base, scale, s) == [p \in DOMAIN s |-> RAdd(base, RMul(scale, s[p]))]

\* the four branches of map_features: source column, channel, normalisation
\* bounds and the final affine remap
Channels == <<
    [col |-> "temp",  chan |-> "amplitude", lo |-> R(10), hi |-> R(35),
     base |-> Rat(1, 4),  scale |-> Rat(3, 4)],
    [col |-> "wind",  chan |-> "drift",     lo |-> R(0),  hi |-> R(18),
     base |-> Rat(1, 10), scale |-> Rat(9, 10)],
    [col |-> "cloud", chan |-> "haze",      lo |-> R(10), hi |-> R(100),
     base |-> Rat(3, 10), scale |-> Rat(7, 10)],
    [col |-> "hum",   chan |-> "warmth",    lo |-> R(30), hi |-> R(95),
     base |-> R(0),       scale |-> R(1)] >>

Columns == {Channels[c].col : c \in DOMAIN Channels}

ChannelNames == {Channels[c].chan : c \in DOMAIN Channels}

\* the value one branch stores: smooth, then normalise, then remap when the
\* column is present; the constant 0.5 otherwise
MapChannel(c) ==
    IF c.col \in DOMAIN df.cols
    THEN Affine(c.base, c.scale,
                normalize_series(smooth_series(df.cols[c.col], 1),
                                 c.lo, c.hi, TRUE).val)
    ELSE def_col(Len(df.index), Rat(1, 2))

\* one `if "<col>" in df: ... else: ...` statement of map_features
MapStep(c, nextpc) ==
    /\ map_pc = Channels[c].col
    /\ features' = features @@ (Channels[c].chan :> MapChannel(Channels[c]))
    /\ warnings' = IF Channels[c].col \in DOMAIN df.cols
                   THEN warnings ELSE warnings \cup {Channels[c].col}
    /\ map_pc' = nextpc
    /\ UNCHANGED <<df, weather_df, times, viz_df>>

MapTemp == MapStep(1, "wind") /\ UNCHANGED <<normVars, renderVars, restVars>>

MapWind == MapStep(2, "cloud") /\ UNCHANGED <<normVars, renderVars, restVars>>

MapCloud == MapStep(3, "hum") /\ UNCHANGED <<normVars, renderVars, restVars>>

MapHum == MapStep(4, "cast") /\ UNCHANGED <<normVars, renderVars, restVars>>

\* the closing astype(np.float32) loop and `return features, times`
MapReturn ==
    /\ map_pc = "cast"
    /\ features' = [k \in DOMAIN features |-> features[k]]
    /\ times' = df.index
    /\ map_pc' = "done"
    /\ UNCHANGED <<df, weather_df, warnings, viz_df>>
    /\ UNCHANGED <<normVars, renderVars, restVars>>

----------------------------------------------------------------------------
(* src/weather_data.py: SkyWeaverWeatherData *)

\* no two numbers compare equal  (not the code)
RNeverEq(a, b) == FALSE

\* Python's == on two floats: NaN equals nothing
REq(a, b) == ~IsNaN(a) /\ ~IsNaN(b) /\ a = b

\* normalize_values(series, (min_val, max_val)); pandas' min() and max()
\* skip NaN and give NaN for an empty or all-NaN series
normalize_values(series, min_val, max_val) ==
    LET series_min == NanMin(series)
        series_max == NanMax(series)
    IN  IF REq(series_max, series_min)
        THEN [p \in DOMAIN series |-> min_val]
        ELSE [p \in DOMAIN series |->
                 RAdd(RMul(RDiv(RSub(series[p], series_min),
                                RSub(series_max, series_min)),
                           RSub(max_val, min_val)),
                      min_val)]

\* smooth_time_series(series, sigma=1.0)
smooth_time_series(series, sigma) ==
    IF \A p \in DOMAIN series : IsNaN(series[p])
    THEN series
    ELSE gaussian_filter1d(series, sigma, "nearest")

\* the four assignments of map_weather_to_visualization
VizColumns == <<
    [col |-> "temperature", out |-> "terrain_amplitude",
     lo |-> Rat(1, 5),  hi |-> R(1)],
    [col |-> "wind_speed",  out |-> "horizontal_drift_speed",
     lo |-> Rat(1, 10), hi |-> R(1)],
    [col |-> "cloud_cover", out |-> "gamma_haze",
     lo |-> R(0),       hi |-> R(1)],
    [col |-> "humidity",    out |-> "color_warmth",
     lo |-> R(0),       hi |-> R(1)] >>

VizNames == {VizColumns[c].out : c \in DOMAIN VizColumns}

\* the column map_weather_to_visualization stores for one parameter:
\* normalise, then smooth
VizChannel(c) ==
    smooth_time_series(normalize_values(weather_df.cols[c.col], c.lo, c.hi), 1)

\* map_weather_to_visualization(weather_df), the whole call
MapWeatherToVisualization ==
    /\ ~viz_df.called
    /\ viz_df' = [called |-> TRUE,
                  index  |-> weather_df.index,
                  cols   |-> [o \in VizNames |->
                                 LET c == CHOOSE k \in SeqRange(VizColumns) : k.out = o
                                 IN  VizChannel(c)]]
    /\ UNCHANGED <<df, weather_df, map_pc, features, times, warnings>>
    /\ UNCHANGED <<normVars, renderVars, restVars>>

----------------------------------------------------------------------------
(* src/src/render.py: make_animation *)

\* a path as os.path.splitext sees it; NoPath is out_path=None
NoPath == [stem |-> "", ext |-> ""]

Mp4Path == [stem |-> "out/shenzhen", ext |-> ".mp4"]

\* the path is passed on as it is  (not the code)
GifPathSame(p) == p

\* os.path.splitext(out_path)[0] + ".gif"
GifPath(p) == [stem |-> p.stem, ext |-> ".gif"]

\* tried: the writers handed the frames so far, in order: [writer, path, ok]
NoSink == [kind |-> "none", path |-> NoPath, frames |-> <<>>, tried |-> <<>>]

\* one pass through a try block of the save part: the writer, the path it
\* was given, and whether the block ended without an exception
Try(writer, path, ok) == [writer |-> writer, path |-> path, ok |-> ok]

\* default of the parameter noise_steps
noise_steps_default == 64

\* n_frames = len(times) * (inbetweens + 1)
FrameCount(len, inb) == len * (inb + 1)

\* mutant of SubSteps: range(inbetweens)
SubStepsShort(inb) == inb

\* the number of values of k in `for k in range(inbetweens + 1)`
SubSteps(inb) == inb + 1

\* mutant of Alpha: the fraction of the end of the sub-step, without the
\* inbetweens > 0 guard
AlphaNext(k, inb) == Rat(k + 1, inb + 1)

\* alpha = k / (inbetweens + 1) if inbetweens > 0 else 0
Alpha(k, inb) == IF inb > 0 THEN Rat(k, inb + 1) ELSE R(0)

\* mutant of interp: the two weights exchanged
interp_swapped(arr, i, alpha) ==
    IF i < Len(arr) - 1
    THEN RAdd(RMul(arr[i + 1], alpha), RMul(arr[i + 2], RSub(R(1), alpha)))
    ELSE arr[i + 1]

\* the closure interp(key), with arr = features[key]; the code's index i is
\* 0-based, sequences here are 1-based
interp(arr, i, alpha) ==
    IF i < Len(arr) - 1
    THEN RAdd(RMul(arr[i + 1], RSub(R(1), alpha)), RMul(arr[i + 2], alpha))
    ELSE arr[i + 1]

\* mutant of global_idx: the stride taken as inbetweens
global_idx_short_stride(i, k, inb) == i * inb + k

\* global_idx = i * (inbetweens + 1) + k
global_idx(i, k, inb) == i * (inb + 1) + k

\* the drift of sample i, not blended with the next one  (not the code)
drift_interp_held(i, alpha) == features["drift"][i + 1]

\* drift0 * (1 - alpha) + drift1 * alpha, with drift1 held at the last sample
drift_interp(i, alpha) ==
    LET drift0 == features["drift"][i + 1]
        drift1 == IF i < Len(times) - 1 THEN features["drift"][i + 2]
                                        ELSE features["drift"][i + 1]
    IN  RAdd(RMul(drift0, RSub(R(1), alpha)), RMul(drift1, alpha))

\* int(np.floor(a)) for a number a
RFloor(a) == a[1] \div a[2]

\* the number is not reduced  (not the code)
RModNone(a, m) == a

\* a % m for a number a and an integer m > 0
RMod(a, m) == RSub(a, R(m * RFloor(RDiv(a, R(m)))))

\* what one pass of the loop body computes for (i, k) before drawing: the
\* interpolated features, the frame index and the noise phase.  The raster
\* itself (noise blend, warp, gamma, palette, text overlay) is a function of
\* these and is not modelled pixel by pixel.
Frame(i, k) ==
    LET alpha == Alpha(k, inbetweens)
        g     == global_idx(i, k, inbetweens)
        di    == drift_interp(i, alpha)
        phase == RMod(RMul(RMul(di, R(g)), R(2)), noise_steps)
        idx0  == RFloor(phase)
    IN  [i |-> i, k |-> k, alpha |-> alpha, global_idx |-> g,
         amplitude |-> interp(features["amplitude"], i, alpha),
         drift     |-> interp(features["drift"], i, alpha),
         haze      |-> interp(features["haze"], i, alpha),
         warmth    |-> interp(features["warmth"], i, alpha),
         drift_interp |-> di,
         phase |-> phase, idx0 |-> idx0, idx1 |-> (idx0 + 1) % noise_steps,
         frac |-> RSub(phase, R(idx0))]

\* lines 59-77: n_frames is computed and logged, the noise fields and the two
\* palettes are built, frames = []; the loop is entered, or skipped when
\* times is empty
RenderStart ==
    /\ render_pc = "start"
    /\ n_frames' = FrameCount(Len(times), inbetweens)
    /\ frames' = <<>>
    /\ loop_i' = 0
    /\ loop_k' = 0
    /\ render_pc' = IF Len(times) > 0 THEN "loop" ELSE "handoff"
    /\ UNCHANGED <<inbetweens, preview, out_path, noise_steps, sink>>
    /\ UNCHANGED <<mapVars, normVars, restVars>>

\* one pass of the body of the nested loops: render frame (i, k), append it,
\* step k, then i; after the last pass the loops are left
RenderFrame ==
    /\ render_pc = "loop"
    /\ loop_i < Len(times)
    /\ frames' = Append(frames, Frame(loop_i, loop_k))
    /\ LET last == loop_k + 1 >= SubSteps(inbetweens)
           ni   == IF last THEN loop_i + 1 ELSE loop_i
       IN  /\ loop_i' = ni
           /\ loop_k' = IF last THEN 0 ELSE loop_k + 1
           /\ render_pc' = IF ni < Len(times) THEN "loop" ELSE "handoff"
    /\ UNCHANGED <<inbetweens, preview, out_path, noise_steps, n_frames, sink>>
    /\ UNCHANGED <<mapVars, normVars, restVars>>

\* `if preview:` frames[0] is read (IndexError on an empty list), then
\* FuncAnimation shows frames[0 .. len(frames)-1] and the function returns
Preview ==
    /\ render_pc = "handoff"
    /\ preview
    /\ IF frames = <<>>
       THEN /\ render_pc' = "raised"
            /\ sink' = sink
       ELSE /\ render_pc' = "done"
            /\ sink' = [kind |-> "preview", path |-> NoPath, frames |-> frames,
                        tried |-> <<>>]
    /\ UNCHANGED <<inbetweens, preview, out_path, noise_steps, n_frames, loop_i, loop_k, frames>>
    /\ UNCHANGED <<mapVars, normVars, restVars>>

\* `if not out_path:` log the error and return
NoOutPath ==
    /\ render_pc = "handoff"
    /\ ~preview
    /\ out_path = NoPath
    /\ render_pc' = "done"
    /\ UNCHANGED <<inbetweens, preview, out_path, noise_steps, n_frames, loop_i, loop_k, frames, sink>>
    /\ UNCHANGED <<mapVars, normVars, restVars>>

\* the try block: encode frames to out_path with FFMpegWriter.  The encoder
\* is external: it succeeds or raises (ok); frames[0] of an empty list raises
SaveMp4 ==
    /\ render_pc = "handoff"
    /\ ~preview
    /\ out_path # NoPath
    /\ \E ok \in BOOLEAN :
          IF ok /\ frames # <<>>
          THEN /\ render_pc' = "done"
               /\ sink' = [kind |-> "mp4", path |-> out_path, frames |-> frames,
                           tried |-> <<Try("FFMpegWriter", out_path, TRUE)>>]
          ELSE /\ render_pc' = "gif"
               /\ sink' = [sink EXCEPT !.tried = <<Try("FFMpegWriter", out_path, FALSE)>>]
    /\ UNCHANGED <<inbetweens, preview, out_path, noise_steps, n_frames, loop_i, loop_k, frames>>
    /\ UNCHANGED <<mapVars, normVars, restVars>>

\* the except block: encode to the .gif path with PillowWriter; a second
\* failure is logged and re-raised
SaveGif ==
    /\ render_pc = "gif"
    /\ \E ok \in BOOLEAN :
          IF ok /\ frames # <<>>
          THEN /\ render_pc' = "done"
               /\ sink' = [kind |-> "gif", path |-> GifPath(out_path), frames |-> frames,
                           tried |-> Append(sink.tried,
                                            Try("PillowWriter", GifPath(out_path), TRUE))]
          ELSE /\ render_pc' = "raised"
               /\ sink' = [sink EXCEPT !.tried =
                               Append(@, Try("PillowWriter", GifPath(out_path), FALSE))]
    /\ UNCHANGED <<inbetweens, preview, out_path, noise_steps, n_frames, loop_i, loop_k, frames>>
    /\ UNCHANGED <<mapVars, normVars, restVars>>

----------------------------------------------------------------------------
(* normalize_series called on its own arguments *)

NormalizeCall ==
    /\ ~norm_out.called
    /\ norm_out' = [called |-> TRUE] @@
                   normalize_series(norm_in.x, norm_in.lo, norm_in.hi, norm_in.clip)
    /\ UNCHANGED norm_in
    /\ UNCHANGED <<mapVars, renderVars, restVars>>

----------------------------------------------------------------------------
(* Inputs *)

\* sequences over S of length 0 .. n
SeqsUpTo(S, n) == UNION {[1..m -> S] : m \in 0..n}

\* hourly samples: below the ranges, inside them, above them, a failed reading
Samples == {
    [temp |-> R(5),  hum |-> R(20),  wind |-> R(0),  cloud |-> R(0)],
    [temp |-> R(20), hum |-> R(60),  wind |-> R(9),  cloud |-> R(55)],
    [temp |-> R(40), hum |-> R(100), wind |-> R(25), cloud |-> R(100)],
    [temp |-> NaN,   hum |-> NaN,    wind |-> NaN,   cloud |-> NaN] }

\* the table with the columns in `present` of the rows `rows`
Table(rows, present) ==
    [index |-> [p \in DOMAIN rows |-> p],
     cols  |-> [c \in present |-> [p \in DOMAIN rows |-> rows[p][c]]]]

\* the same rows under weather_data.py's column names
WeatherTable(rows) ==
    [index |-> [p \in DOMAIN rows |-> p],
     cols  |-> [c \in {"temperature", "humidity", "wind_speed", "cloud_cover"} |->
                  [p \in DOMAIN rows |->
                      CASE c = "temperature" -> rows[p].temp
                        [] c = "humidity"    -> rows[p].hum
                        [] c = "wind_speed"  -> rows[p].wind
                        [] c = "cloud_cover" -> rows[p].cloud]]]

\* no cache file
NoCache == [exists |-> FALSE, age |-> 0, df |-> [index |-> <<>>, cols |-> <<>>]]

\* fetch_weather has returned nothing
NoReturn == [src |-> "none", df |-> [index |-> <<>>, cols |-> <<>>]]

\* fetch_weather not running
FetchIdle ==
    /\ cache = NoCache
    /\ fetch_pc = "idle"
    /\ attempt = 0
    /\ net_log = <<>>
    /\ sleeps = <<>>
    /\ data = <<>>
    /\ fetch_ret = NoReturn
    /\ cache_writes = 0

\* main not running
MainIdle ==
    /\ args = [save |-> FALSE, sigma |-> 1]
    /\ main_pc = "idle"
    /\ main_log = <<>>
    /\ main_err = ""
    /\ render_calls = <<>>

\* get_palette and apply_palette not called
PalIdle ==
    /\ pal_in = [name |-> "dusk", n |-> 0, accent |-> <<0, 1>>]
    /\ pal_out = [called |-> FALSE, warned |-> FALSE, lut |-> <<>>]
    /\ img_in = [ndim |-> 2, px |-> <<>>]
    /\ img_out = [called |-> FALSE, raised |-> "", idx |-> <<>>]

\* _gen_noise_field_vectorized not called
NoiseIdle ==
    /\ has_noise = FALSE
    /\ rng = [seed |-> 0, pos |-> 0]
    /\ noise_calls = <<>>

\* no call of a series function
NoSeriesCall == [fn |-> "none", series |-> <<>>, lo |-> None, hi |-> None, sigma |-> 0]

NoSeriesOut == [called |-> FALSE, val |-> <<>>]

SeriesIdle ==
    /\ series_in = NoSeriesCall
    /\ series_out = NoSeriesOut

\* make_animation not running
RenderIdle ==
    /\ inbetweens = 0
    /\ preview = FALSE
    /\ out_path = NoPath
    /\ noise_steps = noise_steps_default
    /\ render_pc = "idle"
    /\ n_frames = 0
    /\ loop_i = 0
    /\ loop_k = 0
    /\ frames = <<>>
    /\ sink = NoSink

NormIdle == [x |-> <<>>, lo |-> None, hi |-> None, clip |-> TRUE]

NormNotCalled == [called |-> FALSE, raised |-> FALSE, val |-> <<>>, divided |-> FALSE]

InitMap ==
    /\ \E rows \in SeqsUpTo(Samples, MaxLen) : \E present \in SUBSET Columns :
          /\ df = Table(rows, present)
          /\ weather_df = WeatherTable(rows)
    /\ map_pc = "temp"
    /\ features = <<>>
    /\ times = <<>>
    /\ warnings = {}
    /\ viz_df = [called |-> FALSE, index |-> <<>>, cols |-> <<>>]
    /\ norm_in = NormIdle
    /\ norm_out = NormNotCalled
    /\ RenderIdle
    /\ FetchIdle /\ MainIdle /\ PalIdle /\ NoiseIdle /\ SeriesIdle

NextMap ==
    \/ MapTemp
    \/ MapWind
    \/ MapCloud
    \/ MapHum
    \/ MapReturn
    \/ MapWeatherToVisualization

SpecMap == InitMap /\ [][NextMap]_vars

\* values handed to normalize_series: NaN, below, at and above the bounds
NormVals == {NaN, R(0), R(10), R(20), R(35), R(50)}

NormBounds == {None, R(10), R(35)}

InitNorm ==
    /\ norm_in \in [x : SeqsUpTo(NormVals, MaxLen), lo : NormBounds,
                    hi : NormBounds, clip : BOOLEAN]
    /\ norm_out = NormNotCalled
    /\ df = Table(<<>>, {})
    /\ weather_df = WeatherTable(<<>>)
    /\ map_pc = "idle"
    /\ features = <<>>
    /\ times = <<>>
    /\ warnings = {}
    /\ viz_df = [called |-> FALSE, index |-> <<>>, cols |-> <<>>]
    /\ RenderIdle
    /\ FetchIdle /\ MainIdle /\ PalIdle /\ NoiseIdle /\ SeriesIdle

NextNorm == NormalizeCall

SpecNorm == InitNorm /\ [][NextNorm]_vars

\* rows of a feature table as map_features returns it: every channel inside
\* its range (amplitude, drift, haze, warmth)
FeatureRows == {
    [amplitude |-> Rat(1, 4), drift |-> R(1),       haze |-> Rat(3, 10), warmth |-> R(0)],
    [amplitude |-> Rat(1, 2), drift |-> Rat(1, 2),  haze |-> Rat(1, 2),  warmth |-> Rat(1, 2)],
    [amplitude |-> R(1),      drift |-> Rat(1, 10), haze |-> R(1),       warmth |-> R(1)] }

InitRender ==
    /\ \E rows \in SeqsUpTo(FeatureRows, MaxLen) :
          /\ features = [c \in ChannelNames |-> [p \in DOMAIN rows |-> rows[p][c]]]
          /\ times = [p \in DOMAIN rows |-> p]
    /\ inbetweens \in 0..MaxInbetweens
    /\ preview \in BOOLEAN
    /\ out_path \in {NoPath, Mp4Path}
    /\ noise_steps \in {3, noise_steps_default}
    /\ render_pc = "start"
    /\ n_frames = 0
    /\ loop_i = 0
    /\ loop_k = 0
    /\ frames = <<>>
    /\ sink = NoSink
    /\ df = Table(<<>>, {})
    /\ weather_df = WeatherTable(<<>>)
    /\ map_pc = "idle"
    /\ warnings = {}
    /\ viz_df = [called |-> FALSE, index |-> <<>>, cols |-> <<>>]
    /\ norm_in = NormIdle
    /\ norm_out = NormNotCalled
    /\ FetchIdle /\ MainIdle /\ PalIdle /\ NoiseIdle /\ SeriesIdle

NextRender ==
    \/ RenderStart
    \/ RenderFrame
    \/ Preview
    \/ NoOutPath
    \/ SaveMp4
    \/ SaveGif

SpecRender == InitRender /\ [][NextRender]_vars

----------------------------------------------------------------------------
(* src/src/fetch.py: fetch_weather *)

\* cache_ttl_minutes: int = 60
cache_ttl_minutes == 60

\* retries = 3
retries == 3

\* sleep_time = 2 * attempt  (not the code)
SleepTimeLinear(a) == 2 * a

\* sleep_time = 2 ** attempt
SleepTime(a) == 2 ^ a

\* if attempt < retries - 1
RetryAfter(a) == a < retries - 1

\* the age test taken as `<=`  (not the code)
CacheFreshLe(c) == c.exists /\ c.age <= cache_ttl_minutes

\* os.path.exists(cache_path) and now - mtime < timedelta(minutes=ttl)
CacheFresh(c) == c.exists /\ c.age < cache_ttl_minutes

\* the fallback asks for a fresh file  (not the code)
CacheUsableFresh(c) == c.exists /\ c.age < cache_ttl_minutes

\* os.path.exists(cache_path) in the handler of the last attempt
CacheUsable(c) == c.exists

\* the "hourly" lists of a response: one entry per hour, time stamps either
\* ascending or descending
Payload(rows, order) ==
    [p \in DOMAIN rows |->
        [time  |-> IF order = "asc" THEN p ELSE Len(rows) + 1 - p,
         temp  |-> rows[p].temp,
         hum   |-> rows[p].hum,
         wind  |-> rows[p].wind,
         cloud |-> rows[p].cloud]]

\* df.dropna(): the rows with no NaN in any column
DropNa(recs) ==
    SelectSeq(recs, LAMBDA r : /\ ~IsNaN(r.temp) /\ ~IsNaN(r.hum)
                               /\ ~IsNaN(r.wind) /\ ~IsNaN(r.cloud))

\* df.sort_index(): ascending by time stamp (the stamps are distinct)
SortIndex(recs) ==
    [p \in DOMAIN recs |->
        CHOOSE r \in SeqRange(recs) :
            Cardinality({q \in SeqRange(recs) : q.time < r.time}) = p - 1]

\* DataFrame(...).set_index("time"), to_numeric, dropna().sort_index()
ParseHourly(recs) ==
    LET kept == SortIndex(DropNa(recs))
    IN  [index |-> [p \in DOMAIN kept |-> kept[p].time],
         cols  |-> [c \in Columns |-> [p \in DOMAIN kept |-> kept[p][c]]]]

\* if os.path.exists(cache_path) and now - mtime < ttl: return the cache;
\* otherwise enter the retry loop
FetchStart ==
    /\ fetch_pc = "start"
    /\ IF CacheFresh(cache)
         THEN /\ fetch_ret' = [src |-> "fresh_cache", df |-> cache.df]
              /\ fetch_pc' = "returned"
         ELSE /\ fetch_pc' = "attempt"
              /\ UNCHANGED fetch_ret
    /\ attempt' = 0
    /\ UNCHANGED <<cache, net_log, sleeps, data, cache_writes>>
    /\ UNCHANGED <<mapVars, normVars, renderVars, mainVars, palVars, noiseVars, seriesVars>>

\* one iteration of the loop whose request succeeds: data = resp.json(); break
FetchAttemptOk ==
    /\ fetch_pc = "attempt"
    /\ attempt < retries
    /\ \E rows \in SeqsUpTo(Samples, MaxLen) : \E order \in {"asc", "desc"} :
          data' = Payload(rows, order)
    /\ net_log' = Append(net_log, "ok")
    /\ fetch_pc' = "parse"
    /\ UNCHANGED <<cache, attempt, sleeps, fetch_ret, cache_writes>>
    /\ UNCHANGED <<mapVars, normVars, renderVars, mainVars, palVars, noiseVars, seriesVars>>

\* one iteration of the loop whose request raises: sleep and go on, or, on the
\* last attempt, return the old cache or re-raise
FetchAttemptFailed ==
    /\ fetch_pc = "attempt"
    /\ attempt < retries
    /\ net_log' = Append(net_log, "fail")
    /\ IF RetryAfter(attempt)
         THEN /\ sleeps' = Append(sleeps, SleepTime(attempt))
              /\ attempt' = attempt + 1
              /\ UNCHANGED <<fetch_pc, fetch_ret>>
         ELSE /\ IF CacheUsable(cache)
                   THEN /\ fetch_ret' = [src |-> "stale_cache", df |-> cache.df]
                        /\ fetch_pc' = "returned"
                   ELSE /\ fetch_pc' = "raised"
                        /\ UNCHANGED fetch_ret
              /\ UNCHANGED <<sleeps, attempt>>
    /\ UNCHANGED <<cache, data, cache_writes>>
    /\ UNCHANGED <<mapVars, normVars, renderVars, mainVars, palVars, noiseVars, seriesVars>>

\* build the frame, clean it, write the cache, return it
FetchParse ==
    /\ fetch_pc = "parse"
    /\ LET parsed == ParseHourly(data)
       IN  /\ cache' = [exists |-> TRUE, age |-> 0, df |-> parsed]
           /\ fetch_ret' = [src |-> "network", df |-> parsed]
    /\ cache_writes' = cache_writes + 1
    /\ fetch_pc' = "returned"
    /\ UNCHANGED <<attempt, net_log, sleeps, data>>
    /\ UNCHANGED <<mapVars, normVars, renderVars, mainVars, palVars, noiseVars, seriesVars>>

----------------------------------------------------------------------------
(* src/src/main.py: main *)

\* def map_features(df): the parameters a call may bind
map_features_params == {"df"}

\* map_features(df, sigma=args.sigma): the parameters the call binds
map_features_call == {"df", "sigma"}

\* Python binds a call only if every argument names a parameter of the def;
\* otherwise the call raises TypeError before the body runs
CallBinds(params, call) == call \subseteq params

\* logger.info("Fetching weather data ..."); df = fetch_weather(...)
MainFetch ==
    /\ main_pc = "start"
    /\ main_log' = Append(main_log, "fetching")
    /\ fetch_pc' = "start"
    /\ main_pc' = "fetch"
    /\ UNCHANGED <<args, main_err, render_calls>>
    /\ UNCHANGED <<cache, attempt, net_log, sleeps, data, fetch_ret, cache_writes>>
    /\ UNCHANGED <<mapVars, normVars, renderVars, palVars, noiseVars, seriesVars>>

\* the handler passes  (not the code)
HandlerSilent(log, e) == log

\* except Exception as e: logger.error(...); print("[Fatal Error] ...")
Handler(log, e) == log \o <<"error", "fatal">>

\* fetch_weather raised: main's handler runs
MainFetchRaised ==
    /\ main_pc = "fetch"
    /\ fetch_pc = "raised"
    /\ main_err' = "RequestException"
    /\ main_log' = Handler(main_log, "RequestException")
    /\ main_pc' = "end"
    /\ UNCHANGED <<args, render_calls>>
    /\ UNCHANGED <<mapVars, normVars, renderVars, fetchVars, palVars, noiseVars, seriesVars>>

\* fetch_weather returned: log the row count, then call
\* map_features(df, sigma=args.sigma)
MainMap ==
    /\ main_pc = "fetch"
    /\ fetch_pc = "returned"
    /\ df' = fetch_ret.df
    /\ IF CallBinds(map_features_params, map_features_call)
         THEN /\ main_log' = Append(main_log, "rows")
              /\ map_pc' = "temp"
              /\ main_pc' = "map"
              /\ UNCHANGED main_err
         ELSE /\ main_err' = "TypeError"
              /\ main_log' = Handler(Append(main_log, "rows"), "TypeError")
              /\ main_pc' = "end"
              /\ UNCHANGED map_pc
    /\ UNCHANGED <<args, render_calls>>
    /\ UNCHANGED <<weather_df, features, times, warnings, viz_df>>
    /\ UNCHANGED <<normVars, renderVars, fetchVars, palVars, noiseVars, seriesVars>>

\* map_features returned: make_animation(features, times, args.out or None,
\* ..., preview = not args.save)
MainRender ==
    /\ main_pc = "map"
    /\ map_pc = "done"
    /\ render_calls' = Append(render_calls,
            [out_path |-> IF args.save THEN Mp4Path ELSE NoPath,
             preview  |-> ~args.save])
    /\ main_log' = Append(main_log, IF args.save THEN "save" ELSE "preview")
    /\ main_pc' = "render"
    /\ UNCHANGED <<args, main_err>>
    /\ UNCHANGED <<mapVars, normVars, renderVars, fetchVars, palVars, noiseVars, seriesVars>>

\* logger.info("Animation generation completed!")
MainCompleted ==
    /\ main_pc = "render"
    /\ main_log' = Append(main_log, "completed")
    /\ main_pc' = "end"
    /\ UNCHANGED <<args, main_err, render_calls>>
    /\ UNCHANGED <<mapVars, normVars, renderVars, fetchVars, palVars, noiseVars, seriesVars>>

\* the cache file before the run: none, or an earlier result of a given age
\* (minutes)
CacheStates ==
    {NoCache} \cup
    {[exists |-> TRUE, age |-> a, df |-> ParseHourly(Payload(rows, "asc"))] :
        a \in {30, 60, 90}, rows \in SeqsUpTo(Samples, 1)}

Init ==
    /\ args \in [save : BOOLEAN, sigma : {0, 1}]
    /\ cache \in CacheStates
    /\ main_pc = "start"
    /\ main_log = <<>>
    /\ main_err = ""
    /\ render_calls = <<>>
    /\ fetch_pc = "idle"
    /\ attempt = 0
    /\ net_log = <<>>
    /\ sleeps = <<>>
    /\ data = <<>>
    /\ fetch_ret = NoReturn
    /\ cache_writes = 0
    /\ df = Table(<<>>, Columns)
    /\ weather_df = WeatherTable(<<>>)
    /\ map_pc = "idle"
    /\ features = <<>>
    /\ times = <<>>
    /\ warnings = {}
    /\ viz_df = [called |-> FALSE, index |-> <<>>, cols |-> <<>>]
    /\ norm_in = NormIdle
    /\ norm_out = NormNotCalled
    /\ RenderIdle
    /\ PalIdle /\ NoiseIdle /\ SeriesIdle

\* the steps of a run of main.  The mapping steps of map_features follow
\* MainMap only when the call binds; with the def and the call of the source
\* it does not, so MainRender and MainCompleted have no state to fire from.
Next ==
    \/ MainFetch
    \/ FetchStart
    \/ FetchAttemptOk
    \/ FetchAttemptFailed
    \/ FetchParse
    \/ MainFetchRaised
    \/ MainMap

Spec == Init /\ [][Next]_vars

----------------------------------------------------------------------------
(* src/src/palettes.py: get_palette, apply_palette *)

\* a + b for two finite numbers, over the least common denominator (the same
\* sum as RAdd; it keeps the integers of the computation small)
RAddL(a, b) ==
    LET g == GCD(a[2], b[2])
        l == (a[2] \div g) * b[2]
    IN  Rat(a[1] * (l \div a[2]) + b[1] * (l \div b[2]), l)

\* an RGB triple given in 0..255, as the floats stops / 255.0
RGB(r, g, b) == <<Rat(r, 255), Rat(g, 255), Rat(b, 255)>>

\* _PRESETS: three anchor colours per palette name
PRESETS ==
    [dusk     |-> <<RGB(30, 45, 80),   RGB(60, 70, 120),   RGB(180, 80, 100)>>,
     coral    |-> <<RGB(76, 98, 130),  RGB(230, 170, 120), RGB(242, 120, 100)>>,
     twilight |-> <<RGB(40, 120, 140), RGB(70, 60, 120),   RGB(200, 80, 160)>>,
     deepsea  |-> <<RGB(20, 40, 80),   RGB(40, 80, 100),   RGB(120, 130, 140)>>]

\* the fallback is another preset  (not the code)
ResolveNameCoral(name) == IF name \in DOMAIN PRESETS THEN name ELSE "coral"

\* if name not in _PRESETS: name = "dusk"
ResolveName(name) == IF name \in DOMAIN PRESETS THEN name ELSE "dusk"

\* np.linspace(0, 1, n): n = 0 gives the empty array, n = 1 gives [0]
Linspace(n) == [i \in 1..n |-> IF n = 1 THEN R(0) ELSE Rat(i - 1, n - 1)]

\* (1 - k) * a + k * b on one colour component
Mix(a, b, k) == RAddL(RMul(RSub(R(1), k), a), RMul(k, b))

\* the upper half stays at the middle anchor  (not the code)
RampFlatTop(stops, t) ==
    [i \in 1..3 |->
        IF RLt(t, Rat(1, 2))
        THEN Mix(stops[1][i], stops[2][i], RMul(t, R(2)))
        ELSE stops[2][i]]

\* np.piecewise(x, [x < 0.5, x >= 0.5], [...]) at one position t, for the
\* three components
Ramp(stops, t) ==
    [i \in 1..3 |->
        IF RLt(t, Rat(1, 2))
        THEN Mix(stops[1][i], stops[2][i], RMul(t, R(2)))
        ELSE Mix(stops[2][i], stops[3][i], RMul(RSub(t, Rat(1, 2)), R(2)))]

\* weights = np.maximum(0, (linspace - 0.8) * 10) ** 2: the boost starts at
\* t = 0.8  (not the code)
DuskWeightTopFifth(t) ==
    LET e == RMul(RSub(t, Rat(4, 5)), R(10))
        m == IF RLt(e, R(0)) THEN R(0) ELSE e
    IN  RMul(m, m)

\* weights = np.maximum(0, (linspace - 0.9) * 10) ** 2
DuskWeight(t) ==
    LET e == RMul(RSub(t, Rat(9, 10)), R(10))
        m == IF RLt(e, R(0)) THEN R(0) ELSE e
    IN  RMul(m, m)

\* weights = linspace ** 3
CubicWeight(t) == RMul(t, RMul(t, t))

\* weights = linspace ** 2
QuadWeight(t) == RMul(t, t)

\* lut += (target - lut) * k on one entry
Toward(c, target, k) ==
    [i \in 1..3 |-> RAddL(c[i], RMul(RSub(target[i], c[i]), k))]

\* np.clip(accent, 0, 1)
ClipAccent(a) == Clip01(a)

\* the accent branch for one entry c at ramp position t
Accent(name, c, t, accent) ==
    CASE name = "dusk" ->
            LET w  == DuskWeight(t)
                c1 == Toward(c, <<R(1), Rat(2, 5), Rat(3, 10)>>,
                             RMul(RMul(w, accent), Rat(4, 5)))
            IN  Toward(c1, <<R(1), R(1), R(1)>>,
                       RMul(RMul(w, accent), Rat(3, 5)))
      [] name = "deepsea" ->
            LET w == CubicWeight(t)
            IN  Toward(c, <<Rat(4, 5), Rat(9, 10), R(1)>>,
                       RMul(RMul(w, accent), Rat(3, 10)))
      [] OTHER ->
            LET w  == QuadWeight(t)
                c1 == Toward(c, <<R(1), Rat(7, 10), Rat(1, 2)>>,
                             RMul(RMul(w, accent), Rat(1, 2)))
            IN  Toward(c1, <<R(1), R(1), R(1)>>,
                       RMul(RMul(w, accent), Rat(1, 5)))

\* get_palette(name, n, accent) for n >= 0: [warned, lut]
get_palette(name0, n, accent0) ==
    LET name   == ResolveName(name0)
        x      == Linspace(n)
        accent == ClipAccent(accent0)
        base   == [i \in 1..n |-> Ramp(PRESETS[name], x[i])]
        lut    == IF RGt(accent, R(0))
                  THEN [i \in 1..n |-> Accent(name, base[i], x[i], accent)]
                  ELSE base
    IN  [warned |-> name0 \notin DOMAIN PRESETS,
         lut    |-> [i \in 1..n |-> [j \in 1..3 |-> Clip01(lut[i][j])]]]

\* pixel values: below, inside and above [0, 1], NaN and +inf
Pixels == {Rat(-1, 2), R(0), Rat(2, 5), Rat(1, 2), Rat(19, 20), R(1), Rat(3, 2),
           NaN, <<1, 0>>}

\* the values astype(int) may give for NaN and the infinities, which have no
\* integer value: the smallest integer, zero or the largest integer
IntMin == -2147483647

IntMax == 2147483647

UndefinedCasts == {IntMin, 0, IntMax}

\* astype(int) of a finite float: truncation toward zero
TruncInt(v) == IF v[1] >= 0 THEN v[1] \div v[2] ELSE -((-v[1]) \div v[2])

\* (img01 * (n - 1)).astype(int) on one pixel; u is what the build gives for
\* a value without an integer value
CastIndex(v, n, u) ==
    LET s == RMul(v, R(n - 1))
    IN  IF IsNaN(v) \/ v[2] = 0 THEN u ELSE TruncInt(s)

\* np.clip(a, lo, hi) = minimum(maximum(a, lo), hi) on integers
ClipInt(a, lo, hi) ==
    LET m == IF a < lo THEN lo ELSE a
    IN  IF m > hi THEN hi ELSE m

\* get_palette(name, n, accent), the whole call
GetPalette ==
    /\ ~pal_out.called
    /\ LET g == get_palette(pal_in.name, pal_in.n, pal_in.accent)
       IN  pal_out' = [called |-> TRUE, warned |-> g.warned, lut |-> g.lut]
    /\ UNCHANGED <<pal_in, img_in, img_out>>
    /\ UNCHANGED <<mapVars, normVars, renderVars, fetchVars, mainVars, noiseVars, seriesVars>>

\* apply_palette(img01, lut), the whole call, for an image with the pixel values
\* px: the shape tests, the indices, the lookup
ApplyPalette ==
    /\ pal_out.called
    /\ ~img_out.called
    /\ \E px \in SeqsUpTo(Pixels, MaxPixels) : \E ndim \in {2, 3} :
       \E u \in UndefinedCasts :
          LET n   == Len(pal_out.lut)
              idx == [p \in DOMAIN px |-> ClipInt(CastIndex(px[p], n, u), 0, n - 1)]
          IN  /\ img_in' = [ndim |-> ndim, px |-> px]
              /\ img_out' =
                    IF ndim # 2
                    THEN [called |-> TRUE, raised |-> "ValueError", idx |-> <<>>]
                    ELSE IF \E p \in DOMAIN idx : idx[p] + 1 \notin DOMAIN pal_out.lut
                    THEN [called |-> TRUE, raised |-> "IndexError", idx |-> <<>>]
                    ELSE [called |-> TRUE, raised |-> "", idx |-> idx]
    /\ UNCHANGED <<pal_in, pal_out>>
    /\ UNCHANGED <<mapVars, normVars, renderVars, fetchVars, mainVars, noiseVars, seriesVars>>

\* the palette names asked for: the four presets and an unknown one
PaletteNames == DOMAIN PRESETS \cup {"nonexistent"}


\* LUT sizes: the empty LUT, one entry, one entry per anchor, and the smallest
\* size with an entry at t = 0.9
LutSizes == {0, 1, 3, 11}

\* accent arguments: below, at and above the ends of [0, 1], inside it, NaN
Accents == {Rat(-1, 2), R(0), Rat(1, 2), R(1), Rat(3, 2), NaN}

\* the arguments of get_palette; size 21, the smallest with an entry strictly
\* between t = 0.9 and t = 1, is asked for with the default name
PaletteInputs ==
    [name : PaletteNames, n : LutSizes, accent : Accents] \cup
    [name : {"dusk"}, n : {21}, accent : Accents]

InitPalette ==
    /\ pal_in \in PaletteInputs
    /\ pal_out = [called |-> FALSE, warned |-> FALSE, lut |-> <<>>]
    /\ img_in = [ndim |-> 2, px |-> <<>>]
    /\ img_out = [called |-> FALSE, raised |-> "", idx |-> <<>>]
    /\ df = Table(<<>>, Columns)
    /\ weather_df = WeatherTable(<<>>)
    /\ map_pc = "idle"
    /\ features = <<>>
    /\ times = <<>>
    /\ warnings = {}
    /\ viz_df = [called |-> FALSE, index |-> <<>>, cols |-> <<>>]
    /\ norm_in = NormIdle
    /\ norm_out = NormNotCalled
    /\ RenderIdle
    /\ FetchIdle /\ MainIdle /\ NoiseIdle /\ SeriesIdle

NextPalette ==
    \/ GetPalette
    \/ ApplyPalette

SpecPalette == InitPalette /\ [][NextPalette]_vars

----------------------------------------------------------------------------
(* src/src/render.py: _gen_noise_field_vectorized *)

\* np.random.seed(seed) left out: the generator runs on  (not the code)
SeedKeep(g, seed) == g

\* np.random.seed(seed): the global generator restarts the stream of `seed`
Seed(g, seed) == [seed |-> seed, pos |-> 0]

\* the value np.random returns as draw number pos of the stream of `seed`: a
\* fixed function of (seed, pos) with values in [0, 1).  The Mersenne Twister
\* itself is not modelled; this stream has the values 0, 1/4, 1/2, 3/4.
Rand(seed, pos) == Rat((5 * seed + 3 * pos + seed * pos) % 4, 4)

\* noise.pnoise2(x, y, octaves, persistence, lacunarity, repeatx, repeaty,
\* base): a fixed function of its arguments with values in [-1, 1].  The
\* library's gradient table is not modelled; persistence and lacunarity enter
\* through their numerators.
pnoise2(x, y, octaves, persistence, lacunarity, repeatx, repeaty, base) ==
    Rat(((RFloor(RMul(x, R(4))) + 3 * RFloor(RMul(y, R(4))) + 5 * octaves
          + persistence[1] + lacunarity[1] + repeatx + repeaty + 7 * base) % 9) - 4,
        4)

\* scipy.ndimage.gaussian_filter(img, sigma) of an h x w image (a sequence of
\* rows): the 1-D filter along axis 0, then along axis 1, mode "reflect"
gaussian_filter(img, sigma) ==
    LET h  == Len(img)
        w  == Len(img[1])
        a0 == [c \in 1..w |->
                  gaussian_filter1d([r \in 1..h |-> img[r][c]], sigma, "reflect")]
        m0 == [r \in 1..h |-> [c \in 1..w |-> a0[c][r]]]
    IN  [r \in 1..h |-> gaussian_filter1d(m0[r], sigma, "reflect")]

\* all entries of a steps x h x w array
Entries(arrs) ==
    {arrs[t][r][c] : t \in DOMAIN arrs, r \in 1..Len(arrs[1]), c \in 1..Len(arrs[1][1])}

\* the 1e-8 added to the range
noise_eps == Rat(1, 100000000)

\* (arrs - arrs.min()) / (arrs.max() - arrs.min() + 1e-8) over the whole array
NormalizeJoint(arrs) ==
    LET lo == CHOOSE m \in Entries(arrs) : \A e \in Entries(arrs) : RLe(m, e)
        hi == CHOOSE m \in Entries(arrs) : \A e \in Entries(arrs) : RLe(e, m)
        rg == RAdd(RSub(hi, lo), noise_eps)
    IN  [t \in DOMAIN arrs |->
           [r \in DOMAIN arrs[t] |->
              [c \in DOMAIN arrs[t][r] |-> RDiv(RSub(arrs[t][r][c], lo), rg)]]]

\* the coherent-noise branch: pnoise2 at (x * scale + phase, y * scale + phase)
\* with scale = 0.08 and phase = t / steps * 8.0
CoherentField(a) ==
    NormalizeJoint(
        [t \in 1..a.steps |->
           [r \in 1..a.shape[1] |->
              [c \in 1..a.shape[2] |->
                 LET phase == RMul(Rat(t - 1, a.steps), R(8))
                 IN  pnoise2(RAdd(RMul(R(c - 1), Rat(2, 25)), phase),
                             RAdd(RMul(R(r - 1), Rat(2, 25)), phase),
                             a.octaves, a.persistence, a.lacunarity,
                             a.shape[2], a.shape[1], a.seed)]]])

\* the fallback branch from the generator state g: np.random.rand(steps, h, w)
\* in C order, each slice blurred with sigma = 6
FallbackField(a, g) ==
    LET h == a.shape[1]
        w == a.shape[2]
    IN  NormalizeJoint(
           [t \in 1..a.steps |->
              gaussian_filter(
                 [r \in 1..h |->
                    [c \in 1..w |->
                       Rand(g.seed, g.pos + (t - 1) * h * w + (r - 1) * w + (c - 1))]],
                 6)])

\* _gen_noise_field_vectorized(shape, steps, seed, octaves, persistence,
\* lacunarity) from the generator state g0: [arr, rng]
gen_noise_field(a, noisy, g0) ==
    LET g == Seed(g0, a.seed)
    IN  IF noisy
        THEN [arr |-> CoherentField(a), rng |-> g]
        ELSE [arr |-> FallbackField(a, g),
              rng |-> [g EXCEPT !.pos = @ + a.steps * a.shape[1] * a.shape[2]]]

\* the arguments of the calls: the seeds of make_animation's base and ridge
\* fields with the default octave parameters, on a 1 x 1 raster with 2 to
\* MaxSteps time steps
NoiseArgs ==
    [shape : {<<1, 1>>}, steps : 2..MaxSteps, seed : {42, 99},
     octaves : {4}, persistence : {Rat(11, 20)}, lacunarity : {R(2)}]

\* other code draws at most one value more than a call does
MaxPos == MaxSteps + 1

\* one call of _gen_noise_field_vectorized
GenNoise ==
    /\ Len(noise_calls) < MaxCalls
    /\ \E a \in NoiseArgs :
          LET g == gen_noise_field(a, has_noise, rng)
          IN  /\ noise_calls' = Append(noise_calls,
                                       [args |-> a, from |-> rng, arr |-> g.arr])
              /\ rng' = g.rng
    /\ UNCHANGED has_noise
    /\ UNCHANGED <<mapVars, normVars, renderVars, fetchVars, mainVars, palVars, seriesVars>>

\* any other code of the process draws one value from np.random
OtherDraw ==
    /\ rng.pos < MaxPos
    /\ rng' = [rng EXCEPT !.pos = @ + 1]
    /\ UNCHANGED <<has_noise, noise_calls>>
    /\ UNCHANGED <<mapVars, normVars, renderVars, fetchVars, mainVars, palVars, seriesVars>>

InitNoise ==
    /\ has_noise \in BOOLEAN
    /\ rng \in [seed : {0}, pos : 0..1]
    /\ noise_calls = <<>>
    /\ df = Table(<<>>, Columns)
    /\ weather_df = WeatherTable(<<>>)
    /\ map_pc = "idle"
    /\ features = <<>>
    /\ times = <<>>
    /\ warnings = {}
    /\ viz_df = [called |-> FALSE, index |-> <<>>, cols |-> <<>>]
    /\ norm_in = NormIdle
    /\ norm_out = NormNotCalled
    /\ RenderIdle
    /\ FetchIdle /\ MainIdle /\ PalIdle /\ SeriesIdle

NextNoise ==
    \/ GenNoise
    \/ OtherDraw

SpecNoise == InitNoise /\ [][NextNoise]_vars

----------------------------------------------------------------------------
(* Properties of make_animation (checked under SpecRender) *)

\* the loops have been left: frames is what preview / encoding receive
LoopLeft == render_pc \in {"handoff", "gif", "done", "raised"}

\* C1: for every sample count L >= 0 and inbetweens >= 0, make_animation has
\* built exactly L * (inbetweens + 1) frames when the loops are left and the
\* list is handed to preview or encoding: one frame for each pair (i, k) with
\* 0 <= i < L and 0 <= k <= inbetweens, and the logged n_frames is the length
\* of the frame list.
C1_FrameCount ==
    /\ render_pc = "loop" =>
          Len(frames) = loop_i * (inbetweens + 1) + loop_k
    /\ LoopLeft =>
          /\ Len(frames) = Len(times) * (inbetweens + 1)
          /\ n_frames = Len(frames)
          /\ \A a \in 0..(Len(times) - 1) : \A b \in 0..inbetweens :
                Cardinality({g \in DOMAIN frames :
                                frames[g].i = a /\ frames[g].k = b}) = 1
    /\ sink.kind # "none" =>
          Len(sink.frames) = Len(times) * (inbetweens + 1)

C1_Witness ==
    /\ render_pc = "done"
    /\ sink.kind = "mp4"
    /\ Len(times) >= 2
    /\ inbetweens >= 1
    /\ Len(sink.frames) >= 4

\* C2: frames are produced and stored in strictly increasing global frame
\* index: the frame at position g (0-based) of the list is the one rendered
\* for sample g div (inbetweens+1) and sub-step g mod (inbetweens+1), its
\* global_idx is g, so global_idx takes 0 .. n_frames-1 once each in
\* increasing order, and the list handed to preview / encoding is the list
\* as built, in the same order.
C2_FrameOrder ==
    /\ \A g \in DOMAIN frames :
          /\ frames[g].global_idx = g - 1
          /\ frames[g].i = (g - 1) \div (inbetweens + 1)
          /\ frames[g].k = (g - 1) % (inbetweens + 1)
    /\ LoopLeft =>
          {frames[g].global_idx : g \in DOMAIN frames} = 0..(n_frames - 1)
    /\ sink.kind # "none" => sink.frames = frames

C2_Witness ==
    /\ render_pc = "done"
    /\ sink.kind = "preview"
    /\ inbetweens >= 1
    /\ Len(sink.frames) >= 4
    /\ sink.frames[4].global_idx = 3

\* C3: for every frame (i, k) and every feature channel the interpolated
\* value is value[i]*(1-alpha) + value[i+1]*alpha when sample i+1 exists and
\* value[i] otherwise, where alpha = k / (inbetweens+1); alpha is in [0, 1)
\* and the value lies between value[i] and value[i+1].
C3_Interpolation ==
    \A g \in DOMAIN frames : \A c \in ChannelNames :
        LET f   == frames[g]
            arr == features[c]
            m   == inbetweens + 1
        IN  /\ f.alpha[2] > 0
            /\ f.alpha[1] * m = f.k * f.alpha[2]
            /\ RLe(R(0), f.alpha) /\ RLt(f.alpha, R(1))
            /\ IF f.i + 2 <= Len(arr)
               THEN /\ RMul(f[c], R(m)) =
                          RAdd(RMul(arr[f.i + 1], R(m - f.k)),
                               RMul(arr[f.i + 2], R(f.k)))
                    /\ \/ RIn(f[c], arr[f.i + 1], arr[f.i + 2])
                       \/ RIn(f[c], arr[f.i + 2], arr[f.i + 1])
               ELSE f[c] = arr[f.i + 1]

C3_Witness ==
    /\ LoopLeft
    /\ \E g \in DOMAIN frames :
          /\ frames[g].k > 0
          /\ frames[g].i + 2 <= Len(times)
          /\ features["amplitude"][frames[g].i + 1] # features["amplitude"][frames[g].i + 2]
          /\ frames[g].amplitude # features["amplitude"][frames[g].i + 1]
    /\ \E g \in DOMAIN frames :
          /\ frames[g].k > 0
          /\ frames[g].i + 1 = Len(times)

\* C4: with inbetweens = 0, alpha is 0 for every frame, exactly one frame is
\* produced per sample, and every frame's amplitude, drift, haze and warmth
\* and the drift used for the noise phase equal the sample's feature values.
C4_NoInbetweens ==
    inbetweens = 0 =>
        /\ \A g \in DOMAIN frames :
              /\ frames[g].alpha = R(0)
              /\ frames[g].i = g - 1
              /\ \A c \in ChannelNames : frames[g][c] = features[c][g]
              /\ frames[g].drift_interp = features["drift"][g]
        /\ LoopLeft => Len(frames) = Len(times)

C4_Witness ==
    /\ inbetweens = 0
    /\ render_pc = "done"
    /\ Len(frames) >= 2
    /\ features["drift"][1] # features["drift"][2]
    /\ sink.kind # "none"

----------------------------------------------------------------------------
(* Properties of the feature mapping (checked under SpecMap) *)

\* lower end of each channel's documented range; the upper end is 1
ChannelLow(chan) ==
    CASE chan = "amplitude" -> Rat(1, 4)
      [] chan = "drift"     -> Rat(1, 10)
      [] chan = "haze"      -> Rat(3, 10)
      [] chan = "warmth"    -> R(0)

C6_MissingColumnDefault ==
    /\ \A j \in DOMAIN Channels :
          (Channels[j].chan \in DOMAIN features /\ Channels[j].col \notin DOMAIN df.cols)
             => /\ features[Channels[j].chan] = [p \in DOMAIN df.index |-> Rat(1, 2)]
                /\ Channels[j].col \in warnings
    /\ (map_pc = "done" /\ DOMAIN df.cols = {}) =>
          \A c \in ChannelNames : features[c] = [p \in DOMAIN df.index |-> Rat(1, 2)]

C6_Witness ==
    /\ map_pc = "done"
    /\ DOMAIN df.cols = {"temp", "cloud"}
    /\ Len(df.index) >= 2
    /\ features["drift"] = [p \in DOMAIN df.index |-> Rat(1, 2)]
    /\ features["amplitude"] # [p \in DOMAIN df.index |-> Rat(1, 2)]

\* C7: every value of every feature series map_features builds lies in its
\* channel range, for present, missing, out-of-range, NaN and all-NaN
\* columns: amplitude in [0.25, 1], drift in [0.10, 1], haze in [0.30, 1],
\* warmth in [0, 1].
C7_ChannelRanges ==
    \A c \in DOMAIN features : \A p \in DOMAIN features[c] :
        RIn(features[c][p], ChannelLow(c), R(1))

C7_Witness ==
    /\ map_pc = "done"
    /\ DOMAIN df.cols = Columns
    /\ \E p \in DOMAIN df.index : IsNaN(df.cols["temp"][p])
    /\ \E p \in DOMAIN df.index : df.cols["temp"][p] = R(40)
    /\ \E p \in DOMAIN df.index : df.cols["temp"][p] = R(5)
    /\ \E p \in DOMAIN df.index : features["amplitude"][p] # Rat(1, 2)

\* the channel as the statement of C10 describes it:
\* remap(smooth(norm(column)))
NormThenSmooth(c) ==
    Affine(c.base, c.scale,
           smooth_series(normalize_series(df.cols[c.col], c.lo, c.hi, TRUE).val, 1))

\* C10: for every present column, map_features first clamp-normalises the raw
\* values into the channel's range and only then smooths the normalised
\* series, so that the channel equals remap(smooth(norm(column))).
C10_NormalizeThenSmooth ==
    \A j \in DOMAIN Channels :
        (Channels[j].chan \in DOMAIN features /\ Channels[j].col \in DOMAIN df.cols)
           => features[Channels[j].chan] = NormThenSmooth(Channels[j])

----------------------------------------------------------------------------
(* Properties of normalize_series (checked under SpecNorm) *)

\* the bounds the call works with: the arguments, or the observed extremes
EffLo == IF norm_in.lo = None THEN NanMin(norm_in.x) ELSE norm_in.lo

EffHi == IF norm_in.hi = None THEN NanMax(norm_in.x) ELSE norm_in.hi

\* what C8 says of the entry at position p
NormEntryOk(p) ==
    LET x == norm_in.x[p]
        y == norm_out.val[p]
    IN  /\ RIn(y, R(0), R(1))
        /\ IF RLe(x, EffLo) THEN y = R(0)
           ELSE IF RLe(EffHi, x) THEN y = R(1)
           ELSE RMul(y, RSub(EffHi, EffLo)) = RSub(x, EffLo)
        /\ \A q \in DOMAIN norm_in.x :
              RLe(x, norm_in.x[q]) => RLe(y, norm_out.val[q])

\* a call the statement of C8 is about: it returned, clipping is on (the
\* default), and hi > lo
NormCase ==
    /\ norm_out.called
    /\ ~norm_out.raised
    /\ norm_in.clip
    /\ RGt(EffHi, EffLo)

\* C8 as stated: for every input x and bounds hi > lo the result is
\* clip((x - lo)/(hi - lo), 0, 1): always in [0,1], 0 at and below lo, 1 at
\* and above hi, non-decreasing in x.
C8_Original ==
    NormCase =>
        /\ Len(norm_out.val) = Len(norm_in.x)
        /\ \A p \in DOMAIN norm_in.x : NormEntryOk(p)

\* C8 (amended): the same for every entry of x that is a number; an entry
\* that is NaN stays NaN.
C8_NormalizeClips ==
    NormCase =>
        /\ Len(norm_out.val) = Len(norm_in.x)
        /\ \A p \in DOMAIN norm_in.x :
              IF IsNaN(norm_in.x[p])
              THEN IsNaN(norm_out.val[p])
              ELSE LET x == norm_in.x[p]
                       y == norm_out.val[p]
                   IN  /\ RIn(y, R(0), R(1))
                       /\ IF RLe(x, EffLo) THEN y = R(0)
                          ELSE IF RLe(EffHi, x) THEN y = R(1)
                          ELSE RMul(y, RSub(EffHi, EffLo)) = RSub(x, EffLo)
                       /\ \A q \in DOMAIN norm_in.x :
                             RLe(x, norm_in.x[q]) => RLe(y, norm_out.val[q])

C8_Witness ==
    /\ NormCase
    /\ norm_in.lo = R(10)
    /\ norm_in.hi = R(35)
    /\ norm_in.x = <<R(0), R(20), R(50)>>
    /\ norm_out.val = <<R(0), Rat(2, 5), R(1)>>

\* C9: when the range is degenerate (hi == lo, also when both are taken from
\* constant observed data), normalize_series returns an all-zero series of
\* the input length and does not divide.
C9_DegenerateRange ==
    (norm_out.called /\ ~norm_out.raised /\ REq(EffHi, EffLo)) =>
        /\ norm_out.val = [p \in DOMAIN norm_in.x |-> R(0)]
        /\ ~norm_out.divided

C9_Witness ==
    /\ norm_out.called
    /\ ~norm_out.raised
    /\ norm_in.lo = None
    /\ norm_in.hi = None
    /\ norm_in.x = <<R(20), R(20)>>
    /\ norm_out.val = <<R(0), R(0)>>

----------------------------------------------------------------------------
(* Properties of a run of main and of fetch_weather (checked under Spec) *)

\* main has ended after fetch_weather returned a table
MainEndedAfterFetch == main_pc = "end" /\ fetch_ret.src # "none"

\* C11: map_features accepts the smoothing sigma main passes from --sigma:
\* whenever main has ended after a successful fetch, the call
\* map_features(df, sigma=args.sigma) was bound, no TypeError was caught, and
\* the mapping was entered with the caller's table.
C11_SigmaAccepted ==
    MainEndedAfterFetch =>
        /\ main_err # "TypeError"
        /\ "error" \notin SeqRange(main_log)

\* C12: a run of main in which fetch_weather returned at least one sample has,
\* when it ends, invoked make_animation exactly once (with the output path
\* and preview = FALSE iff --save was given, otherwise no path and
\* preview = TRUE) and logged completion last.
C12_RunRendersOnce ==
    (MainEndedAfterFetch /\ Len(fetch_ret.df.index) >= 1) =>
        /\ Len(render_calls) = 1
        /\ render_calls[1] = [out_path |-> IF args.save THEN Mp4Path ELSE NoPath,
                              preview  |-> ~args.save]
        /\ main_log # <<>>
        /\ main_log[Len(main_log)] = "completed"

\* number of failed requests so far
Failures == Cardinality({p \in DOMAIN net_log : net_log[p] = "fail"})

\* C20: without a fresh cache fetch_weather makes at most 3 requests and stops
\* at the first successful one; the k-th sleep lasts 2^(k-1) seconds (1, then
\* 2) and there is one sleep for each failed request that another request may
\* follow, none after the third; the stale cache is returned, or the error
\* raised, only after all 3 requests have failed, and a fresh cache is
\* returned without any request.
C20_RetryPolicy ==
    /\ Len(net_log) <= retries
    /\ \A p \in DOMAIN net_log : net_log[p] = "ok" => p = Len(net_log)
    /\ \A p \in DOMAIN net_log : p > 1 => Len(sleeps) >= p - 1
    /\ \A p \in DOMAIN sleeps : sleeps[p] = 2 ^ (p - 1)
    /\ Len(sleeps) = (IF Failures < retries THEN Failures ELSE retries - 1)
    /\ (fetch_ret.src = "stale_cache" \/ fetch_pc = "raised") =>
          net_log = <<"fail", "fail", "fail">>
    /\ fetch_ret.src = "network" =>
          net_log[Len(net_log)] = "ok"
    /\ fetch_ret.src = "fresh_cache" => net_log = <<>> /\ sleeps = <<>>

\* all three requests failed, both sleeps were taken, the stale cache was
\* returned
C20_Witness ==
    /\ fetch_ret.src = "stale_cache"
    /\ net_log = <<"fail", "fail", "fail">>
    /\ sleeps = <<1, 2>>

----------------------------------------------------------------------------
(* Properties of the smoothing step (checked under SpecMap) *)

\* a column with at least one entry that is a number
HasValid(x) == \E p \in DOMAIN x : ~IsNaN(x[p])

\* the smoothing of C13: NaN replaced by the mean, then the Gaussian filter
\* with the series extended by its first / last value
SmoothNearest(x) ==
    LET m  == nanmean(x)
        x1 == [p \in DOMAIN x |-> IF IsNaN(x[p]) THEN m ELSE x[p]]
    IN  gaussian_filter1d(x1, 1, "nearest")

\* C13: the smoothing pass of map_features uses edge mode "nearest": for every
\* present column with a valid value, the channel is the remapped, normalised
\* result of filtering the column extended beyond both ends by its first / last
\* value; and so is every column of map_weather_to_visualization.
C13_EdgeModeNearest ==
    /\ \A j \in DOMAIN Channels :
          (/\ Channels[j].chan \in DOMAIN features
           /\ Channels[j].col \in DOMAIN df.cols
           /\ HasValid(df.cols[Channels[j].col]))
          => features[Channels[j].chan] =
                Affine(Channels[j].base, Channels[j].scale,
                       normalize_series(SmoothNearest(df.cols[Channels[j].col]),
                                        Channels[j].lo, Channels[j].hi, TRUE).val)
    /\ viz_df.called =>
          \A j \in DOMAIN VizColumns :
             LET x == weather_df.cols[VizColumns[j].col]
             IN  HasValid(x) =>
                    viz_df.cols[VizColumns[j].out] =
                       gaussian_filter1d(
                          normalize_values(x, VizColumns[j].lo, VizColumns[j].hi),
                          1, "nearest")

\* C14: every NaN entry of a column is replaced by the mean of the column's
\* valid entries before the filter runs: a column with at least one valid value
\* gives a channel without NaN, in map_features and in
\* map_weather_to_visualization.
C14_NanReplacedByMean ==
    /\ \A j \in DOMAIN Channels :
          (/\ Channels[j].chan \in DOMAIN features
           /\ Channels[j].col \in DOMAIN df.cols
           /\ HasValid(df.cols[Channels[j].col]))
          => \A p \in DOMAIN features[Channels[j].chan] :
                ~IsNaN(features[Channels[j].chan][p])
    /\ viz_df.called =>
          \A j \in DOMAIN VizColumns :
             HasValid(weather_df.cols[VizColumns[j].col])
             => \A p \in DOMAIN viz_df.cols[VizColumns[j].out] :
                   ~IsNaN(viz_df.cols[VizColumns[j].out][p])

----------------------------------------------------------------------------
(* Properties of get_palette and apply_palette (checked under SpecPalette) *)

\* the preset whose LUT the call builds, and the accent it works with
PalName == ResolveName(pal_in.name)

PalAccent == ClipAccent(pal_in.accent)

\* the LUT of the same preset and size without accent
PalBase == get_palette(PalName, pal_in.n, R(0)).lut

\* C15: for every palette name outside the preset set and every size n >= 0
\* and accent, get_palette warns and returns exactly the n-entry LUT that
\* get_palette("dusk", n, accent) returns, with dusk's accent policy: entries
\* at t <= 0.9 are those of the dusk ramp.
C15_UnknownNameIsDusk ==
    (pal_out.called /\ pal_in.name \notin DOMAIN PRESETS) =>
        /\ pal_out.warned
        /\ Len(pal_out.lut) = pal_in.n
        /\ pal_out.lut = get_palette("dusk", pal_in.n, pal_in.accent).lut
        /\ \A i \in DOMAIN pal_out.lut :
              RLe(Linspace(pal_in.n)[i], Rat(9, 10)) =>
                 pal_out.lut[i] = Ramp(PRESETS["dusk"], Linspace(pal_in.n)[i])

\* an unknown name with a positive accent: the top entry carries dusk's boost
C15_Witness ==
    /\ pal_out.called
    /\ pal_in.name = "nonexistent"
    /\ pal_in.n = 11
    /\ pal_in.accent = Rat(1, 2)
    /\ pal_out.lut[11] # PRESETS["dusk"][3]
    /\ pal_out.lut[1] = PRESETS["dusk"][1]

\* the ends and the middle of a LUT built without accent
RampEnds ==
    /\ pal_out.lut[1] = PRESETS[pal_in.name][1]
    /\ pal_out.lut[pal_in.n] = PRESETS[pal_in.name][3]
    /\ pal_in.n % 2 = 1 => pal_out.lut[(pal_in.n + 1) \div 2] = PRESETS[pal_in.name][2]

\* C16 as stated: for every preset and every LUT size n with at least one
\* entry, with accent = 0, lut[0] is the first anchor and lut[n-1] is the
\* third.
C16_Original ==
    (/\ pal_out.called
     /\ pal_in.name \in DOMAIN PRESETS
     /\ pal_in.accent = R(0)
     /\ pal_in.n >= 1) => RampEnds

\* C16: for every preset and every LUT size n >= 2, with accent = 0, lut[0] is
\* the first anchor, lut[n-1] is the third anchor, and for odd n the middle
\* entry (t = 0.5), where the two segments meet, is the second anchor.
C16_RampEnds ==
    (/\ pal_out.called
     /\ pal_in.name \in DOMAIN PRESETS
     /\ pal_in.accent = R(0)
     /\ pal_in.n >= 2) => RampEnds

\* an 11-entry coral LUT without accent
C16_Witness ==
    /\ pal_out.called
    /\ pal_in.name = "coral"
    /\ pal_in.accent = R(0)
    /\ pal_in.n = 11
    /\ pal_out.lut[11] = RGB(242, 120, 100)
    /\ pal_out.lut[6] = RGB(230, 170, 120)

\* np.clip(lut, 0, 1) on one entry
ClipEntry(c) == [j \in 1..3 |-> Clip01(c[j])]

\* C17: for the dusk LUT and any accent the entries at t <= 0.9 are those of
\* the accent = 0 LUT; with a positive accent "deepsea" moves every entry
\* toward the cool highlight by 0.3 * accent * t^3, and the other presets move
\* every entry toward the warm colour by 0.5 * accent * t^2 and then toward
\* white by 0.2 * accent * t^2.
C17_AccentPolicy ==
    pal_out.called =>
        \A i \in DOMAIN pal_out.lut :
            LET t == Linspace(pal_in.n)[i]
                a == PalAccent
            IN  /\ (PalName = "dusk" /\ RLe(t, Rat(9, 10))) =>
                       pal_out.lut[i] = PalBase[i]
                /\ (PalName = "deepsea" /\ RGt(a, R(0))) =>
                       pal_out.lut[i] =
                          ClipEntry(Toward(PalBase[i], <<Rat(4, 5), Rat(9, 10), R(1)>>,
                                           RMul(Rat(3, 10), RMul(a, RMul(t, RMul(t, t))))))
                /\ (PalName \in {"coral", "twilight"} /\ RGt(a, R(0))) =>
                       pal_out.lut[i] =
                          ClipEntry(Toward(Toward(PalBase[i],
                                                  <<R(1), Rat(7, 10), Rat(1, 2)>>,
                                                  RMul(Rat(1, 2), RMul(a, RMul(t, t)))),
                                           <<R(1), R(1), R(1)>>,
                                           RMul(Rat(1, 5), RMul(a, RMul(t, t)))))

\* dusk with accent 1/2 and 21 entries: the entry at t = 0.95 is changed, the
\* entry at t = 0.9 is not
C17_Witness ==
    /\ pal_out.called
    /\ pal_in.name = "dusk"
    /\ pal_in.n = 21
    /\ pal_in.accent = Rat(1, 2)
    /\ pal_out.lut[20] # PalBase[20]
    /\ pal_out.lut[19] = PalBase[19]

\* round to the nearest integer, halves to the even one
RoundInt(v) ==
    LET f == RFloor(v)
        r == RSub(v, R(f))
    IN  IF RLt(r, Rat(1, 2)) THEN f
        ELSE IF RGt(r, Rat(1, 2)) THEN f + 1
        ELSE IF f % 2 = 0 THEN f ELSE f + 1

\* C18: for a 2-D image and a LUT with n >= 1 entries apply_palette raises
\* nothing, every index it uses is within 0..n-1, and for every pixel value v
\* that is a number the index is clamp(round((n-1)*v), 0, n-1).
C18_RoundedIndex ==
    (img_out.called /\ img_in.ndim = 2 /\ Len(pal_out.lut) >= 1) =>
        /\ img_out.raised = ""
        /\ \A p \in DOMAIN img_out.idx :
              /\ img_out.idx[p] \in 0..(Len(pal_out.lut) - 1)
              /\ img_in.px[p][2] # 0 =>
                    img_out.idx[p] =
                       ClipInt(RoundInt(RMul(img_in.px[p], R(Len(pal_out.lut) - 1))),
                               0, Len(pal_out.lut) - 1)

----------------------------------------------------------------------------
(* Properties of _gen_noise_field_vectorized (checked under SpecNoise) *)

\* C19: any two calls of _gen_noise_field_vectorized of one run with the same
\* shape, steps, seed and octave parameters returned identical arrays,
\* whatever the state of np.random each call started in, on the coherent-noise
\* path and on the blurred-random fallback path.
C19_Deterministic ==
    \A i \in DOMAIN noise_calls : \A j \in DOMAIN noise_calls :
        noise_calls[i].args = noise_calls[j].args =>
            noise_calls[i].arr = noise_calls[j].arr

\* the fallback path: two calls with the same arguments, the second started
\* after the first call's two draws and one more draw by other code; the field
\* is not constant
C19_Witness ==
    /\ ~has_noise
    /\ Len(noise_calls) = 2
    /\ noise_calls[1].args = noise_calls[2].args
    /\ noise_calls[1].args.steps = 2
    /\ noise_calls[2].from = [seed |-> noise_calls[1].args.seed, pos |-> 3]
    /\ noise_calls[1].from # noise_calls[2].from
    /\ noise_calls[2].arr[1] # noise_calls[2].arr[2]

----------------------------------------------------------------------------
(* Properties of the cache and of failure handling (checked under Spec) *)

\* every request made so far has failed, and all `retries` were made
AllAttemptsFailed ==
    /\ Len(net_log) = retries
    /\ \A p \in DOMAIN net_log : net_log[p] = "fail"

\* C21: when all network attempts have failed and fetch_weather is left, then
\* if a cache file exists, whatever its age, its contents are what is returned
\* and the file was not written; if none exists the error is raised, nothing
\* is returned and no file was created.  Stale cache and the raised error
\* occur in no other case.
C21_AllAttemptsFailed ==
    /\ (AllAttemptsFailed /\ cache.exists) =>
          /\ fetch_pc = "returned"
          /\ fetch_ret = [src |-> "stale_cache", df |-> cache.df]
          /\ cache_writes = 0
          /\ cache.age >= cache_ttl_minutes
    /\ (AllAttemptsFailed /\ ~cache.exists) =>
          /\ fetch_pc = "raised"
          /\ fetch_ret = NoReturn
          /\ cache_writes = 0
          /\ cache = NoCache
    /\ (fetch_ret.src = "stale_cache" \/ fetch_pc = "raised") => AllAttemptsFailed

\* three failures with a 90 minutes old cache file: its table is returned
C21_Witness ==
    /\ AllAttemptsFailed
    /\ cache.exists
    /\ cache.age = 90
    /\ Len(cache.df.index) = 1
    /\ fetch_ret = [src |-> "stale_cache", df |-> cache.df]

\* the index of a table is strictly ascending
SortedIndex(d) ==
    \A p \in DOMAIN d.index : \A q \in DOMAIN d.index : p < q => d.index[p] < d.index[q]

\* C22: a cache file younger than cache_ttl_minutes is returned without any
\* network request and without being rewritten; with no such file the network
\* is asked, and after a successful response the parsed rows, without NaN rows
\* and in ascending time order, are written to the cache once and the same
\* table is returned.
C22_ReadThroughCache ==
    /\ fetch_ret.src = "fresh_cache" =>
          /\ cache.exists
          /\ cache.age < cache_ttl_minutes
          /\ fetch_ret.df = cache.df
          /\ net_log = <<>>
          /\ cache_writes = 0
    /\ (fetch_pc \in {"attempt", "parse"} \/ fetch_ret.src = "stale_cache"
                                          \/ fetch_pc = "raised") =>
          /\ ~(cache.exists /\ cache.age < cache_ttl_minutes)
          /\ cache_writes = 0
    /\ (fetch_pc = "returned" /\ net_log = <<>>) => fetch_ret.src = "fresh_cache"
    /\ fetch_ret.src = "network" =>
          /\ net_log[Len(net_log)] = "ok"
          /\ fetch_ret.df = ParseHourly(data)
          /\ SortedIndex(fetch_ret.df)
          /\ Len(fetch_ret.df.index) = Len(DropNa(data))
          /\ cache_writes = 1
          /\ cache = [exists |-> TRUE, age |-> 0, df |-> fetch_ret.df]
    /\ (net_log # <<>> /\ net_log[Len(net_log)] = "ok") =>
          fetch_pc \in {"parse", "returned"}

\* a 60 minutes old cache file (not younger than the TTL) was passed over: the
\* response, delivered in descending order with a NaN row, was sorted, cleaned,
\* cached and returned
C22_Witness ==
    /\ fetch_ret.src = "network"
    /\ Len(data) = 3
    /\ data[1].time = 3
    /\ Len(fetch_ret.df.index) = 2
    /\ SortedIndex(fetch_ret.df)
    /\ cache.df = fetch_ret.df
    /\ cache_writes = 1

\* C24: when the fetch has failed for good (retries exhausted, no cache) or
\* any other stage has raised, main's handler has reported it (error log and
\* fatal message, last in the log), main has ended, no later stage has run
\* (no mapping after a failed fetch, no make_animation call) and completion
\* was not logged.
C24_FailurePropagates ==
    /\ (fetch_pc = "raised" /\ main_pc = "end") =>
          /\ main_err = "RequestException"
          /\ map_pc = "idle"
          /\ features = <<>>
    /\ main_err # "" =>
          /\ main_pc = "end"
          /\ Len(main_log) >= 2
          /\ SubSeq(main_log, Len(main_log) - 1, Len(main_log)) = <<"error", "fatal">>
          /\ "completed" \notin SeqRange(main_log)
          /\ render_calls = <<>>
          /\ render_pc = "idle"
    /\ (main_pc = "end" /\ fetch_pc = "raised") => main_err # ""

\* the fetch failed three times without a cache file: main reported and ended
C24_Witness ==
    /\ fetch_pc = "raised"
    /\ main_pc = "end"
    /\ main_err = "RequestException"
    /\ main_log = <<"fetching", "error", "fatal">>

----------------------------------------------------------------------------
(* Properties of the save part and of the noise phase (checked under
   SpecRender) *)

\* C23: in save mode the FFMpegWriter is tried first, on out_path; the
\* PillowWriter is tried only after that has raised, on out_path with the
\* extension replaced by .gif; the call raises exactly when both have failed,
\* and after a successful mp4 nothing else is tried.
C23_EncoderFallback ==
    LET t == sink.tried
        saving == ~preview /\ out_path # NoPath
    IN  /\ Len(t) <= 2
        /\ t # <<>> => saving /\ t[1] = Try("FFMpegWriter", out_path, t[1].ok)
        /\ Len(t) = 2 =>
              /\ ~t[1].ok
              /\ t[2].writer = "PillowWriter"
              /\ t[2].path = [stem |-> out_path.stem, ext |-> ".gif"]
              /\ t[2].path # out_path
        /\ (saving /\ render_pc = "raised") <=>
              (Len(t) = 2 /\ ~t[1].ok /\ ~t[2].ok)
        /\ (saving /\ render_pc = "done") <=>
              (t # <<>> /\ t[Len(t)].ok)
        /\ (saving /\ render_pc = "gif") <=> (Len(t) = 1 /\ ~t[1].ok)
        /\ sink.kind = "mp4" => t = <<Try("FFMpegWriter", out_path, TRUE)>>
                                /\ sink.path = out_path
        /\ sink.kind = "gif" => Len(t) = 2 /\ t[2].ok /\ sink.path = t[2].path

\* the mp4 encoder raised and the GIF was written next to it
C23_Witness ==
    /\ render_pc = "done"
    /\ sink.kind = "gif"
    /\ sink.path = [stem |-> "out/shenzhen", ext |-> ".gif"]
    /\ Len(sink.tried) = 2
    /\ ~sink.tried[1].ok
    /\ sink.tried[2].ok
    /\ Len(sink.frames) >= 2

\* an integer as a number
IsInt(a) == a[2] = 1

\* C27: in every frame the phase is (drift * global_idx * 2) reduced modulo
\* noise_steps into [0, noise_steps), idx0 is its floor and lies in
\* 0..noise_steps-1, idx1 is idx0 + 1 wrapped to 0 at noise_steps, and the
\* blend fraction lies in [0, 1): no slice outside 0..noise_steps-1 is read.
C27_PhaseInRange ==
    \A p \in DOMAIN frames :
        LET f   == frames[p]
            raw == RMul(RMul(f.drift_interp, R(f.global_idx)), R(2))
        IN  /\ RLe(R(0), f.phase) /\ RLt(f.phase, R(noise_steps))
            /\ IsInt(RDiv(RSub(raw, f.phase), R(noise_steps)))
            /\ f.idx0 \in 0..(noise_steps - 1)
            /\ RLe(R(f.idx0), f.phase) /\ RLt(f.phase, R(f.idx0 + 1))
            /\ f.idx1 \in 0..(noise_steps - 1)
            /\ f.idx1 = IF f.idx0 = noise_steps - 1 THEN 0 ELSE f.idx0 + 1
            /\ f.frac = RSub(f.phase, R(f.idx0))
            /\ RLe(R(0), f.frac) /\ RLt(f.frac, R(1))

\* a frame whose phase has gone round at least once and lies in the last
\* slice, between two slices: the upper index has wrapped to 0
C27_Witness ==
    \E p \in DOMAIN frames :
        LET f == frames[p]
        IN  /\ RGt(RMul(RMul(f.drift_interp, R(f.global_idx)), R(2)), R(noise_steps))
            /\ f.idx0 = noise_steps - 1
            /\ f.idx1 = 0
            /\ RGt(f.frac, R(0))

----------------------------------------------------------------------------
(* normalize_values, smooth_time_series and smooth_series called on their
   own arguments *)

\* series handed to normalize_values: readings and failed readings
NormalizeInputs ==
    [fn : {"normalize_values"},
     series : SeqsUpTo({R(5), R(20), R(40), NaN}, MaxLen),
     lo : {R(0), Rat(1, 5)}, hi : {R(1), Rat(4, 5)}, sigma : {0}]

\* series handed to smooth_time_series: two levels and failed readings
SmoothTimeInputs ==
    [fn : {"smooth_time_series"},
     series : SeqsUpTo({R(0), R(1), NaN}, MaxLen),
     lo : {None}, hi : {None}, sigma : {1}]

\* series handed to smooth_series, with both values of sigma in use
SmoothInputs ==
    [fn : {"smooth_series"},
     series : SeqsUpTo({R(0), R(1)}, MaxLen),
     lo : {None}, hi : {None}, sigma : {1, 6}]

\* weather_data.py: normalize_values(series, (lo, hi))
NormalizeValues ==
    /\ series_in.fn = "normalize_values"
    /\ ~series_out.called
    /\ series_out' = [called |-> TRUE,
                      val |-> normalize_values(series_in.series,
                                               series_in.lo, series_in.hi)]
    /\ UNCHANGED series_in
    /\ UNCHANGED <<mapVars, normVars, renderVars, fetchVars, mainVars, palVars,
                   noiseVars>>

\* weather_data.py: smooth_time_series(series, sigma)
SmoothTimeSeries ==
    /\ series_in.fn = "smooth_time_series"
    /\ ~series_out.called
    /\ series_out' = [called |-> TRUE,
                      val |-> smooth_time_series(series_in.series, series_in.sigma)]
    /\ UNCHANGED series_in
    /\ UNCHANGED <<mapVars, normVars, renderVars, fetchVars, mainVars, palVars,
                   noiseVars>>

\* map.py: smooth_series(x, sigma)
SmoothSeries ==
    /\ series_in.fn = "smooth_series"
    /\ ~series_out.called
    /\ series_out' = [called |-> TRUE,
                      val |-> smooth_series(series_in.series, series_in.sigma)]
    /\ UNCHANGED series_in
    /\ UNCHANGED <<mapVars, normVars, renderVars, fetchVars, mainVars, palVars,
                   noiseVars>>

InitSeries ==
    /\ series_in \in NormalizeInputs \cup SmoothTimeInputs \cup SmoothInputs
    /\ series_out = NoSeriesOut
    /\ df = Table(<<>>, {})
    /\ weather_df = WeatherTable(<<>>)
    /\ map_pc = "idle"
    /\ features = <<>>
    /\ times = <<>>
    /\ warnings = {}
    /\ viz_df = [called |-> FALSE, index |-> <<>>, cols |-> <<>>]
    /\ norm_in = NormIdle
    /\ norm_out = NormNotCalled
    /\ RenderIdle
    /\ FetchIdle /\ MainIdle /\ PalIdle /\ NoiseIdle

NextSeries ==
    \/ NormalizeValues
    \/ SmoothTimeSeries
    \/ SmoothSeries

SpecSeries == InitSeries /\ [][NextSeries]_vars

----------------------------------------------------------------------------
(* Properties of normalize_values and of smoothing (checked under
   SpecSeries) *)

\* normalize_values has returned for a range with lo_t < hi_t
NormalizeReturned ==
    /\ series_in.fn = "normalize_values"
    /\ series_out.called
    /\ RLt(series_in.lo, series_in.hi)

\* the numbers of a series are all the same number (or there is none)
AllEqual(x) ==
    \A p \in DOMAIN x : \A q \in DOMAIN x :
        (~IsNaN(x[p]) /\ ~IsNaN(x[q])) => x[p] = x[q]

\* C25 as stated: the minimum of the series maps to lo_t, the maximum to hi_t,
\* every value of the result lies in [lo_t, hi_t], and a constant series maps
\* every element to lo_t.
C25_Original ==
    NormalizeReturned =>
        LET x == series_in.series
            y == series_out.val
        IN  /\ Len(y) = Len(x)
            /\ \A p \in DOMAIN y : RIn(y[p], series_in.lo, series_in.hi)
            /\ ~AllEqual(x) =>
                  \A p \in DOMAIN x :
                     /\ x[p] = NanMin(x) => y[p] = series_in.lo
                     /\ x[p] = NanMax(x) => y[p] = series_in.hi
            /\ (HasValid(x) /\ AllEqual(x)) =>
                  \A p \in DOMAIN y : y[p] = series_in.lo

\* C25: for lo_t < hi_t, normalize_values returns a series of the same length
\* in which, when the numbers of the input are not all equal, the minimum maps
\* to lo_t, the maximum to hi_t, every number maps linearly into [lo_t, hi_t]
\* and every NaN stays NaN; when the input has numbers and they are all equal,
\* every element (NaN ones too) is lo_t; when it has no number, every element
\* is NaN.
C25_NormalizeValues ==
    NormalizeReturned =>
        LET x  == series_in.series
            y  == series_out.val
            lo == series_in.lo
            hi == series_in.hi
        IN  /\ Len(y) = Len(x)
            /\ ~AllEqual(x) =>
                  \A p \in DOMAIN x :
                     IF IsNaN(x[p]) THEN IsNaN(y[p])
                     ELSE /\ RIn(y[p], lo, hi)
                          /\ x[p] = NanMin(x) => y[p] = lo
                          /\ x[p] = NanMax(x) => y[p] = hi
                          /\ RMul(RSub(y[p], lo), RSub(NanMax(x), NanMin(x)))
                                = RMul(RSub(x[p], NanMin(x)), RSub(hi, lo))
            /\ (HasValid(x) /\ AllEqual(x)) => \A p \in DOMAIN y : y[p] = lo
            /\ ~HasValid(x) => \A p \in DOMAIN y : IsNaN(y[p])

\* [5, NaN, 40] on the range (0.2, 0.8) gives [0.2, NaN, 0.8]
C25_Witness ==
    /\ NormalizeReturned
    /\ series_in.lo = Rat(1, 5)
    /\ series_in.hi = Rat(4, 5)
    /\ series_in.series = <<R(5), NaN, R(40)>>
    /\ series_out.val = <<Rat(1, 5), NaN, Rat(4, 5)>>

\* a smoothing function has returned
SmoothReturned ==
    /\ series_in.fn \in {"smooth_time_series", "smooth_series"}
    /\ series_out.called

RECURSIVE ISum(_)
\* the sum of a sequence of integers
ISum(s) ==
    IF Len(s) = 0 THEN 0
    ELSE IF Len(s) = 1 THEN s[1]
    ELSE LET h == Len(s) \div 2
         IN  ISum(SubSeq(s, 1, h)) + ISum(SubSeq(s, h + 1, Len(s)))

RECURSIVE CommonDen(_)
\* the least common multiple of the denominators of a series of numbers
CommonDen(x) ==
    IF Len(x) = 0 THEN 1
    ELSE LET l == CommonDen(SubSeq(x, 1, Len(x) - 1))
             d == x[Len(x)][2]
         IN  (l \div GCD(l, d)) * d

\* the sum over all pairs p < q of (m*x[p] - m*x[q])^2, which is m^2 * n^2
\* times the variance of x (n * (n - 1) times the sample variance)
PairSq(x, m) ==
    LET n == Len(x)
        v == [p \in 1..n |-> x[p][1] * (m \div x[p][2])]
    IN  ISum([k \in 1..(n * n) |->
                 LET p == ((k - 1) \div n) + 1
                     q == ((k - 1) % n) + 1
                 IN  IF p < q THEN (v[p] - v[q]) * (v[p] - v[q]) ELSE 0])

\* a series with a NaN entry
HasNaN(x) == \E p \in DOMAIN x : IsNaN(x[p])

\* var(a) against var(b) for two series of one length: "nan" when a variance
\* is NaN, which the comparisons <, <= and == all answer with False
VarCompare(a, b) ==
    IF HasNaN(a) \/ HasNaN(b) THEN "nan"
    ELSE LET m  == CommonDen(a \o b)
             pa == PairSq(a, m)
             pb == PairSq(b, m)
         IN  IF pa < pb THEN "lt" ELSE IF pa = pb THEN "eq" ELSE "gt"

\* C26: smoothing returns a series of the length of its input whose variance
\* is not larger than the input's: smaller for an input that is not constant,
\* equal only for a constant one.
C26_VarianceNotIncreased ==
    SmoothReturned =>
        LET x == series_in.series
            y == series_out.val
            c == VarCompare(y, x)
        IN  /\ Len(y) = Len(x)
            /\ c \in {"lt", "eq"}
            /\ (c = "eq") <=> (\A p \in DOMAIN x : x[p] = x[1])

====
